---- MODULE Spec2Model ----
(***************************************************************************)
(* The PYQ practice-session engine (PYQRetrieverService): sessions kept in *)
(* the durable pyq_sessions table and in the process-local dictionary      *)
(* fallback_sessions, navigation, answer grading and progress reporting.   *)
(* Every call to the durable store inside a handler either answers or      *)
(* raises; the outcome of each such call is an input of the action.        *)
(* A handler is an operator from the state and its inputs to its outcome:  *)
(* the result dictionary it returns and the stores as it leaves them.      *)
(***************************************************************************)
EXTENDS Integers, Sequences, FiniteSets, TLC

\* ---------------------------------------------------------------- bounds
\* Number of session ids the id generators hand out.
MaxSessions == 1
\* Number of questions in the questions table.
NumQuestions == 2
\* Number of response ids uuid4 hands out.
MaxResponses == 2
\* Longest correct-answer key / submitted answer in the grading specification.
MaxKeyLen == 2
MaxAnswerLen == 3
\* Request threads, sessions and questions of the concurrent specification.
NumThreads == 2
MaxConcurrentSessions == 2
NumConcurrentQuestions == 3
\* Ticks of the clock in the clock specification.
MaxClock == 2

\* ------------------------------------------------------------ value sets
Questions == 1..NumQuestions
\* The request threads of the development server (app.run serves each
\* request on a thread of its own).
ThreadIds == 1..NumThreads
\* A session id no generator ever produced (a caller may send any string).
UnknownSessionId == 0
Users == {"u1"}
Directions == {"next", "previous", "sideways"}
\* The status query parameter of the session listing
Statuses == {"all", "active", "paused"}
\* Characters of answer strings: a lower-case letter, its upper-case form,
\* another letter and a whitespace character.
Chars == {"a", "A", "b", " "}
Whitespace == {" "}

RECURSIVE StringsOfLen(_)
StringsOfLen(n) ==
    IF n = 0 THEN {<<>>}
    ELSE {<<c>> \o s : c \in Chars, s \in StringsOfLen(n - 1)}

StringsUpTo(n) == UNION {StringsOfLen(k) : k \in 0..n}

\* The (answer, time taken) pairs a caller submits in the main specification.
Submissions ==
    {[user_answer |-> <<" ", "A">>, time_taken |-> 10],
     [user_answer |-> <<"b">>, time_taken |-> 20]}

\* The correct-answer keys of the questions table in the main specification.
InitialKey(q) == IF q % 2 = 1 THEN <<"a">> ELSE <<"b", " ">>

\* All duplicate-free sequences over a set: the lists a filter can resolve to.
RECURSIVE Arrangements(_)
Arrangements(S) ==
    {<<>>} \cup UNION {{<<x>> \o s : s \in Arrangements(S \ {x})} : x \in S}

QuestionLists == Arrangements(Questions)

Range(s) == {s[i] : i \in DOMAIN s}

\* A shuffle that may lose elements: every arrangement of some of them
ShufflesDropping(s) == Arrangements(Range(s))

\* The outcomes of random.shuffle: every permutation of the list.
Shuffles(s) == {p \in Arrangements(Range(s)) : Len(p) = Len(s)}

\* ---------------------------------------------------------------- state
VARIABLES
    pyq_sessions,       \* durable table pyq_sessions: id -> row
    questions,          \* durable table questions: id -> correct_answer
    fallback_sessions,  \* self.fallback_sessions: id -> dict
    next_session_id,    \* ids handed out so far (database ids and uuid4)
    next_response_id,   \* response ids handed out so far (uuid4)
    now,                \* datetime.now()
    threads             \* the request threads of the server: each one's position
                        \* in its handler and the handler's local variables

vars == <<pyq_sessions, questions, fallback_sessions, next_session_id,
          next_response_id, now, threads>>

\* self.supabase: main.py always constructs the service with a client.
supabase == TRUE

\* ------------------------------------------------------------ dictionaries
\* A fallback_sessions entry is a Python dict; `keys` lists the keys it holds
\* and a field whose key is absent keeps the value it has here.
EmptyDict ==
    [keys |-> {},
     user_id |-> "",
     question_ids |-> <<>>,
     question_bank |-> <<>>,
     responses |-> {},
     current_question_index |-> 0,
     total_questions |-> 0,
     questions_answered |-> 0,
     questions_correct |-> 0,
     questions_incorrect |-> 0,
     questions_skipped |-> 0,
     is_active |-> FALSE,
     status |-> "",
     start_time |-> 0,
     last_activity |-> 0]

\* dict.get(key, default)
Get(d, key, default) == IF key \in d.keys THEN d[key] ELSE default

\* self.fallback_sessions.get(session_id) is truthy
HasFallback(session_id) == session_id \in DOMAIN fallback_sessions

\* {"success": False, "error": error}
Failure(error) == [success |-> FALSE, error |-> error]

\* result.get("fallback"): a result without the key is not flagged
Flagged(result) == IF "fallback" \in DOMAIN result THEN result.fallback ELSE FALSE

\* ---------------------------------------------------------- answer grading
\* str.lower() on one character
LowerChar(c) == IF c = "A" THEN "a" ELSE c

\* str.lower()
lower(s) == [i \in DOMAIN s |-> LowerChar(s[i])]

RECURSIVE lstrip(_)
lstrip(s) ==
    IF s = <<>> THEN s
    ELSE IF Head(s) \in Whitespace THEN lstrip(Tail(s)) ELSE s

RECURSIVE rstrip(_)
rstrip(s) ==
    IF s = <<>> THEN s
    ELSE IF s[Len(s)] \in Whitespace THEN rstrip(SubSeq(s, 1, Len(s) - 1)) ELSE s

\* str.strip()
strip(s) == rstrip(lstrip(s))

\* A grader that trims but compares case-sensitively
_check_answer_case_sensitive(correct_answer, user_answer) ==
    strip(correct_answer) = strip(user_answer)

\* _check_answer: str(correct_answer).strip().lower() == str(user_answer).strip().lower()
_check_answer(correct_answer, user_answer) ==
    lower(strip(correct_answer)) = lower(strip(user_answer))

\* ------------------------------------------------------------ dict helpers
\* An assignment that replaces the dictionary by one holding only the new key
PutReplacing(d, key, value) == [EmptyDict EXCEPT ![key] = value, !.keys = {key}]

\* d[key] = value
Put(d, key, value) == [d EXCEPT ![key] = value, !.keys = @ \cup {key}]

\* A row of pyq_sessions as create_session inserts it (session_data)
SessionData(user_id, found) ==
    [EmptyDict EXCEPT
        !.keys = {"user_id", "current_question_index", "total_questions",
                  "questions_answered", "start_time", "last_activity", "is_active"},
        !.user_id = user_id,
        !.current_question_index = 0,
        !.total_questions = Len(found),
        !.questions_answered = 0,
        !.start_time = now,
        !.last_activity = now,
        !.is_active = TRUE]

\* {q["id"]: q for q in questions}: the records as the source returned them
QuestionBank(found) == [q \in Range(found) |-> questions[q]]

\* A stub that keeps the question records but not the question list
DurableStubWithoutList(question_ids) ==
    [EmptyDict EXCEPT
        !.keys = {"id", "question_bank"},
        !.question_bank = QuestionBank(question_ids)]

\* The entry create_session leaves in fallback_sessions after a durable insert
DurableStub(question_ids) ==
    [EmptyDict EXCEPT
        !.keys = {"id", "question_ids", "question_bank"},
        !.question_ids = question_ids,
        !.question_bank = QuestionBank(question_ids)]

\* The entry create_session builds when the durable insert did not succeed
FallbackSession(user_id, question_ids) ==
    [SessionData(user_id, question_ids) EXCEPT
        !.keys = @ \cup {"id", "time_limit", "question_ids", "questions_correct",
                         "questions_incorrect", "questions_skipped", "status",
                         "responses", "question_bank"},
        !.question_ids = question_ids,
        !.questions_correct = 0,
        !.questions_incorrect = 0,
        !.questions_skipped = 0,
        !.status = "active",
        !.responses = {},
        !.question_bank = QuestionBank(question_ids)]

\* The entry submit_answer creates for a session id fallback_sessions lacks
SubmitStub ==
    [EmptyDict EXCEPT !.keys = {"id", "question_ids", "question_bank", "responses"}]

\* ------------------------------------------------------- question source
\* _get_filtered_questions: the questions table query (which may raise), then
\* the fallback provider when it found nothing; provider_matches is <<>> for a
\* provider without get_filtered_questions.
_get_filtered_questions(query_ok, db_matches, provider_matches) ==
    LET fromDb == IF supabase /\ query_ok THEN db_matches ELSE <<>>
    IN  IF fromDb = <<>> THEN provider_matches ELSE fromDb

\* _get_session_question_ids
_get_session_question_ids(session_id) ==
    IF session_id \in DOMAIN fallback_sessions
    THEN Get(fallback_sessions[session_id], "question_ids", <<>>)
    ELSE <<>>

\* _get_question_with_metadata: the questions row, None (here {}) when the
\* query raises; every id of Questions is a row of the table.
_get_question_with_metadata(question_id, lookup_ok) ==
    IF supabase /\ lookup_ok /\ question_id \in DOMAIN questions
    THEN {questions[question_id]}
    ELSE {}

\* ------------------------------------------------------- handler outcomes
\* What a handler leaves behind: the dictionary it returns and the stores.
Outcome(result, sessions, fallback, session_ids, response_ids) ==
    [result |-> result,
     pyq_sessions |-> sessions,
     fallback_sessions |-> fallback,
     next_session_id |-> session_ids,
     next_response_id |-> response_ids]

\* A handler that returns without writing anything
Returns(result) ==
    Outcome(result, pyq_sessions, fallback_sessions, next_session_id, next_response_id)

\* A handler that returns after writing the session stores
Writes(result, sessions, fallback) ==
    Outcome(result, sessions, fallback, next_session_id, next_response_id)

\* ------------------------------------------------------- session lookup
\* The prologue shared by the session-addressed handlers: the durable row when
\* the select answers with one, else the fallback entry.
SessionSource(session_id, select_ok) ==
    IF supabase /\ select_ok /\ session_id \in DOMAIN pyq_sessions
    THEN "supabase" ELSE "fallback"

\* not session
SessionFound(session_id, source) ==
    source = "supabase" \/ session_id \in DOMAIN fallback_sessions

SessionDict(session_id, source) ==
    IF source = "supabase" THEN pyq_sessions[session_id]
    ELSE fallback_sessions[session_id]

\* question_ids as navigate/jump/get_current read them
SessionQuestionIds(session_id, source) ==
    IF source = "supabase" THEN _get_session_question_ids(session_id)
    ELSE Get(fallback_sessions[session_id], "question_ids", <<>>)

\* "fallback": source == "fallback"
FallbackFlag(source) == source = "fallback"

\* ---------------------------------------------------------------- create
\* A check that lets an empty question list through
NoQuestionsNever(found) == FALSE

\* if not questions
NoQuestions(found) == found = <<>>

\* An id generator that hands out the id it handed out last
ReusedSessionId(issued) == IF issued > 1 THEN issued - 1 ELSE issued

\* session["id"] of the inserted row, str(uuid.uuid4()) for a fallback session:
\* an id that was not handed out before (`issued` counts the ids handed out)
NewSessionId(issued) == issued

\* self.fallback_sessions[session_id] = entry: an assignment, which replaces
\* the entry the dictionary holds under that id
SetItem(sessions, session_id, entry) ==
    [s \in DOMAIN sessions \cup {session_id} |->
        IF s = session_id THEN entry ELSE sessions[s]]

\* create_session; `shuffled` is the order random.shuffle leaves the list in.
create_session(user_id, query_ok, db_matches, provider_matches, shuffle_questions, shuffled, insert_ok) ==
    LET found == _get_filtered_questions(query_ok, db_matches, provider_matches)
        question_ids == IF shuffle_questions THEN shuffled ELSE found
        session_id == NewSessionId(next_session_id)
    IN  IF NoQuestions(found)
        THEN Returns(Failure("No questions found matching the specified filters"))
        ELSE IF supabase /\ insert_ok
        THEN Outcome([success |-> TRUE,
                      session_id |-> session_id,
                      question_ids |-> question_ids,
                      total_questions |-> Len(question_ids)],
                     pyq_sessions @@ (session_id :> SessionData(user_id, question_ids)),
                     SetItem(fallback_sessions, session_id, DurableStub(question_ids)),
                     next_session_id + 1, next_response_id)
        ELSE Outcome([success |-> TRUE,
                      session_id |-> session_id,
                      question_ids |-> question_ids,
                      total_questions |-> Len(question_ids),
                      fallback |-> TRUE],
                     pyq_sessions,
                     SetItem(fallback_sessions, session_id,
                             FallbackSession(user_id, question_ids)),
                     next_session_id + 1, next_response_id)

\* ------------------------------------------------------------ navigation
\* A "next" without a boundary check
NextRefusedNever(current_index, question_ids) == FALSE

\* A boundary check that lets "next" run one past the last question
NextRefusedPastEnd(current_index, question_ids) == current_index >= Len(question_ids)

\* navigate_to_question: "next" is refused at the last index
NextRefused(current_index, question_ids) == current_index >= Len(question_ids) - 1

\* A "previous" that is refused wherever the cursor is
PreviousRefusedAlways(current_index) == TRUE

\* A boundary check that lets "previous" step below the first question
PreviousRefusedBelowZero(current_index) == current_index < 0

\* navigate_to_question: "previous" is refused at the first index
PreviousRefused(current_index) == current_index <= 0

\* An index check that forgets the upper end
InvalidIndexNoUpperEnd(question_index, question_ids) == question_index < 0

\* jump_to_question: the index check
InvalidIndex(question_index, question_ids) ==
    question_index < 0 \/ question_index >= Len(question_ids)

\* A cursor write that is not keyed by session id: it reaches every session
WriteIndexEverywhere(result, session_id, source, index, update_ok) ==
    Writes(result,
           [s \in DOMAIN pyq_sessions |->
               Put(pyq_sessions[s], "current_question_index", index)],
           [s \in DOMAIN fallback_sessions |->
               Put(fallback_sessions[s], "current_question_index", index)])

\* The cursor write shared by navigate_to_question and jump_to_question: the
\* durable update (whose exception is swallowed) when the row was read from
\* the durable store, else the fallback entry.
WriteIndex(result, session_id, source, index, update_ok) ==
    IF source = "supabase"
    THEN Writes(result,
                IF update_ok
                THEN [pyq_sessions EXCEPT ![session_id] =
                        Put(Put(@, "current_question_index", index), "last_activity", now)]
                ELSE pyq_sessions,
                fallback_sessions)
    ELSE Writes(result,
                pyq_sessions,
                [fallback_sessions EXCEPT ![session_id] =
                    Put(Put(@, "current_question_index", index), "last_activity", now)])

navigate_to_question(session_id, direction, select_ok, update_ok) ==
    LET source == SessionSource(session_id, select_ok)
    IN  IF ~SessionFound(session_id, source)
        THEN Returns(Failure("Session not found"))
        ELSE LET session == SessionDict(session_id, source)
                 question_ids == SessionQuestionIds(session_id, source)
                 current_index == Get(session, "current_question_index", 0)
                 target == IF direction = "next" THEN current_index + 1
                           ELSE current_index - 1
             IN  IF question_ids = <<>>
                 THEN Returns(Failure("No questions found for this session"))
                 ELSE IF direction = "next" /\ NextRefused(current_index, question_ids)
                 THEN Returns(Failure("Cannot move beyond the last question"))
                 ELSE IF direction = "previous" /\ PreviousRefused(current_index)
                 THEN Returns(Failure("Cannot move before the first question"))
                 ELSE IF direction \notin {"next", "previous"}
                 THEN Returns(Failure("Invalid navigation direction"))
                 ELSE WriteIndex([success |-> TRUE,
                                  current_index |-> target,
                                  fallback |-> FallbackFlag(source)],
                                 session_id, source, target, update_ok)

jump_to_question(session_id, question_index, select_ok, update_ok) ==
    LET source == SessionSource(session_id, select_ok)
    IN  IF ~SessionFound(session_id, source)
        THEN Returns(Failure("Session not found"))
        ELSE LET question_ids == SessionQuestionIds(session_id, source)
             IN  IF question_ids = <<>>
                 THEN Returns(Failure("No questions found for this session"))
                 ELSE IF InvalidIndex(question_index, question_ids)
                 THEN Returns(Failure("Invalid question index"))
                 ELSE WriteIndex([success |-> TRUE,
                                  current_index |-> question_index,
                                  fallback |-> FallbackFlag(source)],
                                 session_id, source, question_index, update_ok)

\* ---------------------------------------------------------------- submit
\* A store that appends the record instead of replacing the one it has
StoreResponseAppending(responses, record) == responses \cup {record}

\* responses[question_id] = {...}: a dict keeps one value per key
StoreResponse(responses, record) ==
    {r \in responses : r.question_id # record.question_id} \cup {record}

\* An id choice that draws a new uuid for every submission
ResponseIdAlwaysFresh(existing, fresh) == fresh

\* existing.get("id") if existing else str(uuid.uuid4())
ResponseId(existing, fresh) ==
    IF existing # {} THEN (CHOOSE r \in existing : TRUE).id ELSE fresh

\* A statistics write that also moves the cursor to the number answered
WithStatsAdvancing(entry, responses) ==
    Put(Put(entry, "questions_answered", Cardinality(responses)),
        "current_question_index", Cardinality(responses))

\* The counters submit_answer and _update_session_stats write into the
\* fallback entry, recomputed from its responses.
WithStats(entry, responses) ==
    Put(Put(Put(Put(entry,
        "questions_answered", Cardinality(responses)),
        "questions_correct", Cardinality({r \in responses : r.is_correct})),
        "questions_incorrect", Cardinality({r \in responses : ~r.is_correct})),
        "last_activity", now)

\* A statistics write that upserts: it creates the durable row it does not find
UpsertSessionStats(session_id, responses, update_ok) ==
    IF supabase /\ update_ok
    THEN IF session_id \in DOMAIN pyq_sessions
         THEN [pyq_sessions EXCEPT ![session_id] =
                 Put(@, "questions_answered", Cardinality(responses))]
         ELSE pyq_sessions @@ (session_id :>
                 Put(EmptyDict, "questions_answered", Cardinality(responses)))
    ELSE pyq_sessions

\* _update_session_stats: the durable row gets questions_answered; an update
\* that raises, or that matches no row, changes nothing.
_update_session_stats(session_id, responses, update_ok) ==
    IF supabase /\ update_ok /\ session_id \in DOMAIN pyq_sessions
    THEN [pyq_sessions EXCEPT ![session_id] =
            Put(Put(@, "questions_answered", Cardinality(responses)), "last_activity", now)]
    ELSE pyq_sessions

\* The question record submit_answer grades against: the questions row, else
\* the record kept in the fallback entry's question_bank.
QuestionForSubmit(session_id, question_id, lookup_ok) ==
    LET question == _get_question_with_metadata(question_id, lookup_ok)
    IN  IF question = {} /\ session_id \in DOMAIN fallback_sessions
        THEN LET question_bank == Get(fallback_sessions[session_id], "question_bank", <<>>)
             IN  IF question_id \in DOMAIN question_bank
                 THEN {question_bank[question_id]} ELSE {}
        ELSE question

submit_answer(session_id, question_id, user_answer, time_taken, lookup_ok, update_ok) ==
    LET question == QuestionForSubmit(session_id, question_id, lookup_ok)
    IN  IF question = {}
        THEN Returns(Failure("Question not found"))
        ELSE LET correct_answer == CHOOSE k \in question : TRUE
                 is_correct == _check_answer(correct_answer, user_answer)
                 entry == IF session_id \in DOMAIN fallback_sessions
                          THEN fallback_sessions[session_id] ELSE SubmitStub
                 responses == Get(entry, "responses", {})
                 existing == {r \in responses : r.question_id = question_id}
                 response_id == ResponseId(existing, next_response_id)
                 record == [session_id |-> session_id,
                            question_id |-> question_id,
                            user_answer |-> user_answer,
                            is_correct |-> is_correct,
                            time_taken |-> time_taken,
                            response_time |-> now,
                            id |-> response_id]
                 stored == StoreResponse(responses, record)
             IN  Outcome([success |-> TRUE,
                          is_correct |-> is_correct,
                          correct_answer |-> correct_answer,
                          response_id |-> response_id,
                          fallback |-> TRUE],
                         _update_session_stats(session_id, stored, update_ok),
                         [s \in DOMAIN fallback_sessions \cup {session_id} |->
                             IF s = session_id
                             THEN WithStats(Put(entry, "responses", stored), stored)
                             ELSE fallback_sessions[s]],
                         next_session_id,
                         IF existing = {} THEN next_response_id + 1 ELSE next_response_id)

\* ------------------------------------------------------- current question
\* (part / whole) * 100 if whole else 0, in whole percent
Percentage(part, whole) == IF whole # 0 THEN (part * 100) \div whole ELSE 0

get_current_question(session_id, select_ok, lookup_ok, update_ok) ==
    LET source == SessionSource(session_id, select_ok)
    IN  IF ~SessionFound(session_id, source)
        THEN Returns(Failure("Session not found"))
        ELSE LET session == SessionDict(session_id, source)
                 question_ids == SessionQuestionIds(session_id, source)
                 current_index == Get(session, "current_question_index", 0)
             IN  IF question_ids = <<>>
                 THEN Returns(Failure("No questions found for this session"))
                 ELSE IF current_index >= Len(question_ids)
                 THEN Returns([success |-> FALSE,
                               error |-> "No more questions in this session",
                               session_completed |-> TRUE])
                 ELSE LET current_question_id == question_ids[current_index + 1]
                          question == _get_question_with_metadata(current_question_id, lookup_ok)
                          result ==
                              [success |-> TRUE,
                               question_id |-> current_question_id,
                               current_index |-> current_index,
                               total_questions |-> Len(question_ids),
                               questions_answered |-> Get(session, "questions_answered", 0),
                               progress_percentage |->
                                   Percentage(current_index, Len(question_ids)),
                               \* the engine never writes the test_responses table
                               previous_response |->
                                   IF source = "supabase" THEN {}
                                   ELSE {r \in Get(session, "responses", {}) :
                                           r.question_id = current_question_id},
                               has_previous |-> (current_index > 0),
                               has_next |-> (current_index < Len(question_ids) - 1),
                               is_last |-> (current_index = Len(question_ids) - 1),
                               fallback |-> FallbackFlag(source)]
                      IN  IF question = {}
                          THEN Returns(Failure("Question not found"))
                          ELSE IF source = "supabase"
                          THEN Writes(result,
                                      IF update_ok
                                      THEN [pyq_sessions EXCEPT ![session_id] =
                                              Put(@, "last_activity", now)]
                                      ELSE pyq_sessions,
                                      fallback_sessions)
                          ELSE Writes(result,
                                      pyq_sessions,
                                      [fallback_sessions EXCEPT ![session_id] =
                                          Put(@, "last_activity", now)])

\* --------------------------------------------------------------- progress
\* A status map that marks a position by the session's first attempt, not by
\* the attempt for the question at that position
QuestionStatusMapAnyAttempt(question_ids, responses) ==
    [index \in 0..(Len(question_ids) - 1) |->
        IF responses # {}
        THEN IF (CHOOSE r \in responses : TRUE).is_correct
             THEN "correct" ELSE "incorrect"
        ELSE "not_attempted"]

\* The per-index status map of get_session_progress: enumerate(question_ids)
\* counts the positions from 0.
QuestionStatusMap(question_ids, responses) ==
    [index \in 0..(Len(question_ids) - 1) |->
        LET response == {r \in responses : r.question_id = question_ids[index + 1]}
        IN  IF response # {}
            THEN IF (CHOOSE r \in response : TRUE).is_correct
                 THEN "correct" ELSE "incorrect"
            ELSE "not_attempted"]

get_session_progress(session_id, select_ok) ==
    LET source == SessionSource(session_id, select_ok)
    IN  IF ~SessionFound(session_id, source)
        THEN Returns(Failure("Session not found"))
        ELSE LET session == SessionDict(session_id, source)
                 fallback_data == IF session_id \in DOMAIN fallback_sessions
                                  THEN fallback_sessions[session_id] ELSE EmptyDict
                 responses == Get(fallback_data, "responses", {})
                 question_ids == IF source = "supabase"
                                 THEN _get_session_question_ids(session_id)
                                 ELSE Get(fallback_data, "question_ids", <<>>)
                 total_questions == Get(session, "total_questions", Len(question_ids))
                 questions_answered == Cardinality(responses)
                 questions_correct == Cardinality({r \in responses : r.is_correct})
                 questions_incorrect == Cardinality({r \in responses : ~r.is_correct})
             IN  Returns([success |-> TRUE,
                          current_question |-> Get(session, "current_question_index", 0) + 1,
                          total_questions |-> total_questions,
                          questions_answered |-> questions_answered,
                          questions_correct |-> questions_correct,
                          questions_incorrect |-> questions_incorrect,
                          questions_remaining |-> total_questions - questions_answered,
                          progress_percentage |->
                              Percentage(questions_answered, total_questions),
                          accuracy_percentage |->
                              Percentage(questions_correct, questions_answered),
                          question_status |-> QuestionStatusMap(question_ids, responses),
                          is_completed |-> (questions_answered = total_questions),
                          fallback |-> FallbackFlag(source)])

\* ----------------------------------------------------------- pause/resume
\* A pause/resume that also rewinds the session to its first question
SetActiveRewinding(session_id, is_active, status, update_ok) ==
    IF supabase /\ update_ok
    THEN Writes([success |-> TRUE],
                IF session_id \in DOMAIN pyq_sessions
                THEN [pyq_sessions EXCEPT ![session_id] =
                        Put(Put(@, "is_active", is_active), "current_question_index", 0)]
                ELSE pyq_sessions,
                fallback_sessions)
    ELSE IF session_id \notin DOMAIN fallback_sessions
    THEN Returns(Failure("Session not found"))
    ELSE Writes([success |-> TRUE, fallback |-> TRUE],
                pyq_sessions,
                [fallback_sessions EXCEPT ![session_id] =
                    Put(Put(Put(@, "is_active", is_active), "status", status),
                        "current_question_index", 0)])

\* pause_session and resume_session differ in the flag and status they write.
SetActive(session_id, is_active, status, update_ok) ==
    IF supabase /\ update_ok
    THEN Writes([success |-> TRUE],
                IF session_id \in DOMAIN pyq_sessions
                THEN [pyq_sessions EXCEPT ![session_id] =
                        Put(Put(@, "is_active", is_active), "last_activity", now)]
                ELSE pyq_sessions,
                fallback_sessions)
    ELSE IF session_id \notin DOMAIN fallback_sessions
    THEN Returns(Failure("Session not found"))
    ELSE Writes([success |-> TRUE, fallback |-> TRUE],
                pyq_sessions,
                [fallback_sessions EXCEPT ![session_id] =
                    Put(Put(Put(@, "is_active", is_active), "status", status),
                        "last_activity", now)])

pause_session(session_id, update_ok) ==
    SetActive(session_id, FALSE, "paused", update_ok)

resume_session(session_id, update_ok) ==
    SetActive(session_id, TRUE, "active", update_ok)

\* ---------------------------------------------------------- user sessions
\* The ids of S in ascending order
RECURSIVE Ascending(_)
Ascending(S) ==
    IF S = {} THEN <<>>
    ELSE LET least == CHOOSE x \in S : \A y \in S : x <= y
         IN  <<least>> \o Ascending(S \ {least})

Reversed(s) == [i \in 1..Len(s) |-> s[Len(s) + 1 - i]]

\* The pyq_sessions rows of a user that the status filter keeps, newest first
\* (ids are handed out in creation order)
DurableRows(user_id, status) ==
    Reversed(Ascending({id \in DOMAIN pyq_sessions :
        /\ Get(pyq_sessions[id], "user_id", "") = user_id
        /\ status # "all" => Get(pyq_sessions[id], "is_active", TRUE) = (status = "active")}))

\* The fallback entries of a user that the status filter keeps, in insertion
\* order; an entry without user_id belongs to nobody
FallbackRows(user_id, status) ==
    Ascending({id \in DOMAIN fallback_sessions :
        /\ "user_id" \in fallback_sessions[id].keys
        /\ fallback_sessions[id].user_id = user_id
        /\ \/ status = "all"
           \/ status = "active" /\ Get(fallback_sessions[id], "is_active", FALSE)})

\* get_user_sessions: the durable rows when the select answers with any, else
\* the fallback entries. The engine never writes the test_responses table, so
\* the count it reads there is 0, as is the default kept when the count raises.
get_user_sessions(user_id, status, select_ok) ==
    LET rows == IF supabase /\ select_ok THEN DurableRows(user_id, status) ELSE <<>>
        source == IF rows = <<>> THEN "fallback" ELSE "supabase"
        listed == IF source = "supabase" THEN rows ELSE FallbackRows(user_id, status)
        Enhanced(id) ==
            IF source = "supabase"
            THEN LET session == pyq_sessions[id]
                     total_questions == Get(session, "total_questions", 0)
                 IN  [id |-> id,
                      current_question_index |-> Get(session, "current_question_index", 0),
                      is_active |-> Get(session, "is_active", TRUE),
                      total_questions |-> total_questions,
                      questions_answered |-> 0,
                      progress_percentage |-> Percentage(0, total_questions),
                      is_completed |-> (0 = total_questions),
                      fallback |-> FALSE]
            ELSE LET fallback_session == fallback_sessions[id]
                     total_questions ==
                         Get(fallback_session, "total_questions",
                             Len(Get(fallback_session, "question_ids", <<>>)))
                     questions_answered == Get(fallback_session, "questions_answered", 0)
                 IN  [id |-> id,
                      current_question_index |->
                          Get(fallback_session, "current_question_index", 0),
                      is_active |-> Get(fallback_session, "is_active", TRUE),
                      total_questions |-> total_questions,
                      questions_answered |-> questions_answered,
                      progress_percentage |-> Percentage(questions_answered, total_questions),
                      is_completed |-> (questions_answered = total_questions),
                      fallback |-> TRUE]
    IN  Returns([success |-> TRUE,
                 sessions |-> [i \in 1..Len(listed) |-> Enhanced(listed[i])],
                 fallback |-> FallbackFlag(source)])

\* ---------------------------------------------------------- specification
\* A request thread that is not inside a handler
IdleThread ==
    [pc |-> "idle", op |-> "", session_id |-> UnknownSessionId, source |-> "",
     index |-> 0, record |-> {}, counted |-> {}, result |-> {}]

Init ==
    /\ pyq_sessions = <<>>
    /\ questions = [q \in Questions |-> InitialKey(q)]
    /\ fallback_sessions = <<>>
    /\ next_session_id = 1
    /\ next_response_id = 1
    /\ now = 0
    /\ threads = [t \in ThreadIds |-> IdleThread]

\* A call: the stores become what the handler left; the id generators stop at
\* their bounds.
Call(outcome) ==
    /\ outcome.next_session_id <= MaxSessions + 1
    /\ outcome.next_response_id <= MaxResponses + 1
    /\ pyq_sessions' = outcome.pyq_sessions
    /\ fallback_sessions' = outcome.fallback_sessions
    /\ next_session_id' = outcome.next_session_id
    /\ next_response_id' = outcome.next_response_id
    /\ UNCHANGED <<questions, now, threads>>

\* The session ids a caller can send: the ids handed out, and an unknown one.
CallerSessionIds == {UnknownSessionId} \cup 1..(next_session_id - 1)

CreateSession ==
    \E user_id \in Users, query_ok \in BOOLEAN, shuffle_questions \in BOOLEAN,
       insert_ok \in BOOLEAN, db_matches \in QuestionLists,
       provider_matches \in QuestionLists, shuffled \in QuestionLists :
        \* a query that raised matched nothing; the provider is asked only then
        /\ query_ok \/ db_matches = <<>>
        /\ db_matches = <<>> \/ provider_matches = <<>>
        /\ shuffled \in (IF shuffle_questions
                         THEN Shuffles(_get_filtered_questions(query_ok, db_matches, provider_matches))
                         ELSE {<<>>})
        /\ Call(create_session(user_id, query_ok, db_matches, provider_matches,
                               shuffle_questions, shuffled, insert_ok))

Navigate ==
    \E session_id \in CallerSessionIds, direction \in Directions,
       select_ok \in BOOLEAN, update_ok \in BOOLEAN :
        Call(navigate_to_question(session_id, direction, select_ok, update_ok))

Jump ==
    \E session_id \in CallerSessionIds, question_index \in -1..NumQuestions,
       select_ok \in BOOLEAN, update_ok \in BOOLEAN :
        Call(jump_to_question(session_id, question_index, select_ok, update_ok))

SubmitAnswer ==
    \E session_id \in CallerSessionIds, question_id \in Questions,
       submission \in Submissions, lookup_ok \in BOOLEAN, update_ok \in BOOLEAN :
        Call(submit_answer(session_id, question_id, submission.user_answer,
                           submission.time_taken, lookup_ok, update_ok))

GetCurrent ==
    \E session_id \in CallerSessionIds, select_ok \in BOOLEAN,
       lookup_ok \in BOOLEAN, update_ok \in BOOLEAN :
        Call(get_current_question(session_id, select_ok, lookup_ok, update_ok))

GetProgress ==
    \E session_id \in CallerSessionIds, select_ok \in BOOLEAN :
        Call(get_session_progress(session_id, select_ok))

Pause ==
    \E session_id \in CallerSessionIds, update_ok \in BOOLEAN :
        Call(pause_session(session_id, update_ok))

Resume ==
    \E session_id \in CallerSessionIds, update_ok \in BOOLEAN :
        Call(resume_session(session_id, update_ok))

ListSessions ==
    \E user_id \in Users, status \in Statuses, select_ok \in BOOLEAN :
        Call(get_user_sessions(user_id, status, select_ok))

Next ==
    \/ CreateSession
    \/ Navigate
    \/ Jump
    \/ SubmitAnswer
    \/ GetCurrent
    \/ GetProgress
    \/ Pause
    \/ Resume
    \/ ListSessions

Spec == Init /\ [][Next]_vars

\* ------------------------------------------------------------------ views
\* The sessions create_session has returned
CreatedSessions == 1..(next_session_id - 1)

\* The cursor a store holds for a session (PYQSession.current_question_index
\* defaults to 0)
DurableIndex(sessions, session_id) ==
    Get(sessions[session_id], "current_question_index", 0)

\* The cursor in the store a call reads the session from
IndexIn(outcome, session_id, source) ==
    IF source = "supabase" THEN DurableIndex(outcome.pyq_sessions, session_id)
    ELSE DurableIndex(outcome.fallback_sessions, session_id)

\* A handler that wrote nothing
NothingWritten(outcome) ==
    /\ outcome.pyq_sessions = pyq_sessions
    /\ outcome.fallback_sessions = fallback_sessions

\* ------------------------------------------------------------------ claims
\* C1: in every store, every session's cursor stays within
\* 0..len(question_ids) whatever navigate and jump calls were made and
\* however the durable calls inside them ended; so does every index a
\* successful navigation returns.
C1_IndexInRange ==
    /\ \A session_id \in DOMAIN pyq_sessions :
          /\ 0 <= DurableIndex(pyq_sessions, session_id)
          /\ DurableIndex(pyq_sessions, session_id) <= Len(_get_session_question_ids(session_id))
    /\ \A session_id \in DOMAIN fallback_sessions :
          /\ 0 <= DurableIndex(fallback_sessions, session_id)
          /\ DurableIndex(fallback_sessions, session_id) <= Len(_get_session_question_ids(session_id))
    /\ \A session_id \in CallerSessionIds, select_ok \in BOOLEAN, update_ok \in BOOLEAN :
          /\ \A direction \in Directions :
                LET result == navigate_to_question(session_id, direction, select_ok, update_ok).result
                IN  result.success =>
                      /\ 0 <= result.current_index
                      /\ result.current_index <= Len(_get_session_question_ids(session_id))
          /\ \A question_index \in -1..NumQuestions :
                LET result == jump_to_question(session_id, question_index, select_ok, update_ok).result
                IN  result.success =>
                      /\ 0 <= result.current_index
                      /\ result.current_index <= Len(_get_session_question_ids(session_id))

\* C1 witness: a session whose cursor was moved to its last question in the
\* durable row and in the fallback entry.
C1_Witness ==
    \E session_id \in DOMAIN pyq_sessions :
        /\ Len(_get_session_question_ids(session_id)) >= 2
        /\ DurableIndex(pyq_sessions, session_id) = Len(_get_session_question_ids(session_id)) - 1
        /\ "current_question_index" \in fallback_sessions[session_id].keys
        /\ DurableIndex(fallback_sessions, session_id) = Len(_get_session_question_ids(session_id)) - 1

\* C2: navigate "previous" on a session whose cursor, in the store the call
\* reads it from, is 0 fails with "Cannot move before the first question" and
\* writes nothing to either store.
C2_PreviousAtFirst ==
    \A session_id \in CreatedSessions, select_ok \in BOOLEAN, update_ok \in BOOLEAN :
        LET source == SessionSource(session_id, select_ok)
            outcome == navigate_to_question(session_id, "previous", select_ok, update_ok)
        IN  DurableIndex(IF source = "supabase" THEN pyq_sessions ELSE fallback_sessions,
                         session_id) = 0
            => /\ outcome.result = Failure("Cannot move before the first question")
               /\ NothingWritten(outcome)

\* C2 witness: a session that was moved forward and is back at index 0 in the
\* fallback entry, where "previous" is then refused.
C2_Witness ==
    \E session_id \in CreatedSessions :
        /\ "current_question_index" \in fallback_sessions[session_id].keys
        /\ DurableIndex(fallback_sessions, session_id) = 0
        /\ ~navigate_to_question(session_id, "previous", FALSE, FALSE).result.success

\* C3: navigate "next" on a session whose cursor, in the store the call reads
\* it from, is len(question_ids) - 1 fails with "Cannot move beyond the last
\* question" and writes nothing to either store.
C3_NextAtLast ==
    \A session_id \in CreatedSessions, select_ok \in BOOLEAN, update_ok \in BOOLEAN :
        LET source == SessionSource(session_id, select_ok)
            outcome == navigate_to_question(session_id, "next", select_ok, update_ok)
        IN  DurableIndex(IF source = "supabase" THEN pyq_sessions ELSE fallback_sessions,
                         session_id) = Len(SessionQuestionIds(session_id, source)) - 1
            => /\ outcome.result = Failure("Cannot move beyond the last question")
               /\ NothingWritten(outcome)

\* C3 witness: a session of two or more questions moved to its last question
\* in the durable row, where "next" is then refused.
C3_Witness ==
    \E session_id \in DOMAIN pyq_sessions :
        /\ Len(_get_session_question_ids(session_id)) >= 2
        /\ DurableIndex(pyq_sessions, session_id) = Len(_get_session_question_ids(session_id)) - 1
        /\ ~navigate_to_question(session_id, "next", TRUE, TRUE).result.success

\* C4 (as claimed): jump to an index outside 0..len-1 fails with "Invalid
\* question index" and writes nothing; jump to an index inside succeeds,
\* returns that index, and the cursor of the session, in the store the call
\* read it from, is that index afterwards.
C4_JumpSetsIndex ==
    \A session_id \in CreatedSessions, question_index \in -1..NumQuestions,
       select_ok \in BOOLEAN, update_ok \in BOOLEAN :
        LET source == SessionSource(session_id, select_ok)
            outcome == jump_to_question(session_id, question_index, select_ok, update_ok)
        IN  IF question_index < 0 \/ question_index >= Len(SessionQuestionIds(session_id, source))
            THEN /\ outcome.result = Failure("Invalid question index")
                 /\ NothingWritten(outcome)
            ELSE /\ outcome.result.success
                 /\ outcome.result.current_index = question_index
                 /\ IndexIn(outcome, session_id, source) = question_index

\* The attempts (responses) kept for a session
Attempts(fallback, session_id) ==
    IF session_id \in DOMAIN fallback
    THEN Get(fallback[session_id], "responses", {})
    ELSE {}

\* The attempts recorded for one question of a session
AttemptsFor(fallback, session_id, question_id) ==
    {r \in Attempts(fallback, session_id) : r.question_id = question_id}

\* The calls a client can make to submit_answer in any state
SubmitCalls ==
    {[session_id |-> session_id, question_id |-> question_id,
      user_answer |-> submission.user_answer, time_taken |-> submission.time_taken,
      lookup_ok |-> lookup_ok, update_ok |-> update_ok] :
        session_id \in CallerSessionIds, question_id \in Questions,
        submission \in Submissions, lookup_ok \in BOOLEAN, update_ok \in BOOLEAN}

SubmitOutcome(c) ==
    submit_answer(c.session_id, c.question_id, c.user_answer, c.time_taken,
                  c.lookup_ok, c.update_ok)

\* The counters of a fallback entry count its attempts
CountersMatch(entry) ==
    LET responses == Get(entry, "responses", {})
    IN  /\ Get(entry, "questions_answered", 0) = Cardinality(responses)
        /\ Get(entry, "questions_correct", 0) = Cardinality({r \in responses : r.is_correct})
        /\ Get(entry, "questions_incorrect", 0) = Cardinality({r \in responses : ~r.is_correct})

\* C5: every session holds at most one attempt per question and counters that
\* count its attempts once each; and a successful submission leaves exactly
\* one attempt for its (session, question) pair, carrying the answer, the
\* correctness and the time of that submission, the attempts for the other
\* questions as they were, and counters that count the new attempt set.
C5_OneAttemptPerQuestion ==
    /\ \A session_id \in DOMAIN fallback_sessions :
          /\ \A r1, r2 \in Attempts(fallback_sessions, session_id) :
                r1.question_id = r2.question_id => r1 = r2
          /\ \A r \in Attempts(fallback_sessions, session_id) : r.session_id = session_id
          /\ CountersMatch(fallback_sessions[session_id])
    /\ \A c \in SubmitCalls :
          LET outcome == SubmitOutcome(c)
              after == outcome.fallback_sessions
          IN  outcome.result.success =>
                /\ Cardinality(AttemptsFor(after, c.session_id, c.question_id)) = 1
                /\ \A r \in AttemptsFor(after, c.session_id, c.question_id) :
                      /\ r.user_answer = c.user_answer
                      /\ r.time_taken = c.time_taken
                      /\ r.is_correct = outcome.result.is_correct
                /\ \A q \in Questions \ {c.question_id} :
                      AttemptsFor(after, c.session_id, q) =
                          AttemptsFor(fallback_sessions, c.session_id, q)
                /\ CountersMatch(after[c.session_id])

\* C5 witness: a session holding a graded attempt for each of two questions,
\* one of which a different answer is about to replace.
C5_Witness ==
    \E session_id \in CreatedSessions :
        /\ Cardinality(Attempts(fallback_sessions, session_id)) = 2
        /\ fallback_sessions[session_id].questions_correct = 1
        /\ \E c \in SubmitCalls, r \in Attempts(fallback_sessions, session_id) :
              /\ c.session_id = session_id
              /\ c.question_id = r.question_id
              /\ c.user_answer # r.user_answer
              /\ SubmitOutcome(c).result.success
              /\ SubmitOutcome(c).result.is_correct # r.is_correct

\* Every response id stored in any session
StoredResponseIds(fallback) ==
    {r.id : r \in UNION {Attempts(fallback, session_id) : session_id \in DOMAIN fallback}}

\* C6: a submission for a (session, question) pair that has an attempt returns
\* the id of that attempt and the stored attempt keeps it; a submission for a
\* pair without one returns an id no stored attempt carries.
C6_ResponseIdKept ==
    \A c \in SubmitCalls :
        LET outcome == SubmitOutcome(c)
            before == AttemptsFor(fallback_sessions, c.session_id, c.question_id)
            after == AttemptsFor(outcome.fallback_sessions, c.session_id, c.question_id)
        IN  outcome.result.success =>
              /\ \A r \in after : r.id = outcome.result.response_id
              /\ \A r \in before : r.id = outcome.result.response_id
              /\ before = {} => outcome.result.response_id \notin StoredResponseIds(fallback_sessions)

\* C6 witness: two pairs hold attempts with different ids, and a resubmission
\* for one of them with another answer is about to return its id.
C6_Witness ==
    \E session_id \in CreatedSessions :
        /\ Cardinality(StoredResponseIds(fallback_sessions)) = 2
        /\ \E c \in SubmitCalls, r \in Attempts(fallback_sessions, session_id) :
              /\ c.session_id = session_id
              /\ c.question_id = r.question_id
              /\ c.user_answer # r.user_answer
              /\ SubmitOutcome(c).result.response_id = r.id

\* C7 (as claimed): every progress report has progress_percentage within
\* 0..100, and 0 when total_questions is 0.
C7_ProgressWithinBounds ==
    \A session_id \in CallerSessionIds, select_ok \in BOOLEAN :
        LET result == get_session_progress(session_id, select_ok).result
        IN  result.success =>
              /\ 0 <= result.progress_percentage
              /\ result.progress_percentage <= 100
              /\ result.total_questions = 0 => result.progress_percentage = 0

\* --------------------------------------------------- grading specification
\* The questions table holds any key for question 1; one session over that
\* question is created (in either store) and answered with any string.
KeyStrings == StringsUpTo(MaxKeyLen)
AnswerStrings == StringsUpTo(MaxAnswerLen)

InitGrade ==
    /\ pyq_sessions = <<>>
    /\ questions \in {[q \in Questions |-> IF q = 1 THEN key ELSE InitialKey(q)] :
                        key \in KeyStrings}
    /\ fallback_sessions = <<>>
    /\ next_session_id = 1
    /\ next_response_id = 1
    /\ now = 0
    /\ threads = [t \in ThreadIds |-> IdleThread]

GradeCreate ==
    \E insert_ok \in BOOLEAN :
        Call(create_session("u1", TRUE, <<1>>, <<>>, FALSE, <<>>, insert_ok))

GradeSubmit ==
    \E session_id \in CreatedSessions, user_answer \in AnswerStrings, lookup_ok \in BOOLEAN :
        Call(submit_answer(session_id, 1, user_answer, 10, lookup_ok, TRUE))

NextGrade ==
    \/ GradeCreate
    \/ GradeSubmit

SpecGrade == InitGrade /\ [][NextGrade]_vars

\* s without its leading and trailing whitespace, said without recursion: the
\* slice of s that has only whitespace before and after it and that is empty
\* or starts and ends with a character that is not whitespace.
Trimmed(s) ==
    CHOOSE t \in {SubSeq(s, i, j) : i \in 1..(Len(s) + 1), j \in 0..Len(s)} :
        \E i \in 1..(Len(s) + 1), j \in 0..Len(s) :
            /\ t = SubSeq(s, i, j)
            /\ i <= j + 1
            /\ \A k \in 1..(i - 1) : s[k] \in Whitespace
            /\ \A k \in (j + 1)..Len(s) : s[k] \in Whitespace
            /\ i <= j => s[i] \notin Whitespace /\ s[j] \notin Whitespace

\* Two strings that differ at most in the case of their letters
SameIgnoringCase(s, t) ==
    /\ Len(s) = Len(t)
    /\ \A k \in 1..Len(s) : s[k] = t[k] \/ {s[k], t[k]} = {"a", "A"}

\* C8: a submission is graded correct exactly when the submitted answer and
\* the question's correct-answer key, each without its surrounding whitespace,
\* are the same string up to the case of the letters; the stored attempt
\* carries the same verdict and the result names the key.
C8_GradingRule ==
    \A session_id \in CreatedSessions, user_answer \in AnswerStrings, lookup_ok \in BOOLEAN :
        LET outcome == submit_answer(session_id, 1, user_answer, 10, lookup_ok, TRUE)
        IN  /\ outcome.result.success
            /\ outcome.result.correct_answer = questions[1]
            /\ outcome.result.is_correct =
                  SameIgnoringCase(Trimmed(questions[1]), Trimmed(user_answer))
            /\ \A r \in AttemptsFor(outcome.fallback_sessions, session_id, 1) :
                  r.is_correct = outcome.result.is_correct

\* C8 witness: an attempt graded correct for an answer that differs from the
\* key in case and in surrounding whitespace.
C8_Witness ==
    \E session_id \in CreatedSessions :
      \E r \in Attempts(fallback_sessions, session_id) :
        /\ r.is_correct
        /\ r.user_answer # questions[1]
        /\ Len(r.user_answer) > Len(Trimmed(r.user_answer))
        /\ Trimmed(r.user_answer) # Trimmed(questions[1])

\* C9 (as claimed): with every durable call raising, create_session succeeds
\* in fallback mode when the provider yields questions, and on a session that
\* lives only in the fallback store get_current_question, submit_answer for
\* the current question and get_session_progress all succeed and are flagged
\* fallback.
C9_DegradedLifetime ==
    /\ \A user_id \in Users, provider_matches \in QuestionLists \ {<<>>} :
          LET result == create_session(user_id, FALSE, <<>>, provider_matches,
                                       FALSE, <<>>, FALSE).result
          IN  result.success /\ Flagged(result)
    /\ \A session_id \in CreatedSessions \ DOMAIN pyq_sessions :
          LET entry == fallback_sessions[session_id]
              current_question_id == entry.question_ids[entry.current_question_index + 1]
              current == get_current_question(session_id, FALSE, FALSE, FALSE).result
              progress == get_session_progress(session_id, FALSE).result
          IN  /\ current.success /\ Flagged(current)
              /\ progress.success /\ Flagged(progress)
              /\ \A submission \in Submissions :
                    LET graded == submit_answer(session_id, current_question_id,
                                                submission.user_answer,
                                                submission.time_taken, FALSE, FALSE).result
                    IN  graded.success /\ Flagged(graded)

\* The fallback entry of a session holds what its durable row holds (a key a
\* store lacks reads as the PYQSession default).
Mirrored(outcome, session_id) ==
    /\ session_id \in DOMAIN outcome.fallback_sessions
    /\ LET row == outcome.pyq_sessions[session_id]
           entry == outcome.fallback_sessions[session_id]
       IN  /\ Len(Get(entry, "question_ids", <<>>)) = Get(row, "total_questions", 0)
           /\ Get(entry, "current_question_index", 0) = Get(row, "current_question_index", 0)
           /\ Get(entry, "is_active", TRUE) = Get(row, "is_active", TRUE)
           /\ Get(entry, "questions_answered", 0) = Get(row, "questions_answered", 0)

\* C10 (as claimed): after every create, navigate, jump, pause, resume and
\* submit whose durable write succeeded, the fallback entry of the session
\* holds the same question list, cursor, active flag and answered counter as
\* the durable row.
C10_FallbackMirrorsDurable ==
    /\ \A user_id \in Users, db_matches \in QuestionLists \ {<<>>} :
          LET outcome == create_session(user_id, TRUE, db_matches, <<>>, FALSE, <<>>, TRUE)
          IN  /\ outcome.result.question_ids =
                    outcome.fallback_sessions[outcome.result.session_id].question_ids
              /\ Mirrored(outcome, outcome.result.session_id)
    /\ \A session_id \in CreatedSessions \cap DOMAIN pyq_sessions :
          /\ \A direction \in {"next", "previous"} :
                LET outcome == navigate_to_question(session_id, direction, TRUE, TRUE)
                IN  outcome.result.success => Mirrored(outcome, session_id)
          /\ \A question_index \in 0..(NumQuestions - 1) :
                LET outcome == jump_to_question(session_id, question_index, TRUE, TRUE)
                IN  outcome.result.success => Mirrored(outcome, session_id)
          /\ Mirrored(pause_session(session_id, TRUE), session_id)
          /\ Mirrored(resume_session(session_id, TRUE), session_id)
          /\ \A c \in SubmitCalls :
                (c.session_id = session_id /\ c.update_ok /\ SubmitOutcome(c).result.success)
                    => Mirrored(SubmitOutcome(c), session_id)

\* The outcomes of the navigation calls a client can make on a session
NavigationOutcomes(session_id) ==
    {navigate_to_question(session_id, direction, select_ok, update_ok) :
        direction \in {"next", "previous"}, select_ok \in BOOLEAN, update_ok \in BOOLEAN}
    \cup
    {jump_to_question(session_id, question_index, select_ok, update_ok) :
        question_index \in 0..(NumQuestions - 1), select_ok \in BOOLEAN, update_ok \in BOOLEAN}

\* Every get_current_question that succeeds on the session, whatever the
\* durable store does during the call, reports the cursor `index`
ReportsCursor(session_id, index) ==
    \A select_ok \in BOOLEAN, lookup_ok \in BOOLEAN, update_ok \in BOOLEAN :
        LET current == get_current_question(session_id, select_ok, lookup_ok, update_ok).result
        IN  current.success => current.current_index = index

\* C11 (as claimed): after a navigate_to_question or jump_to_question that
\* returned success with index i, the next get_current_question on the session
\* reports current_index i, whatever the durable store did during either call.
\* The first conjunct covers the navigation calls that leave both stores as
\* they were, the second the ones that write.
C11_CursorSurvives ==
    /\ [](\A session_id \in CreatedSessions :
            \A outcome \in NavigationOutcomes(session_id) :
                (outcome.result.success /\ NothingWritten(outcome))
                    => ReportsCursor(session_id, outcome.result.current_index))
    /\ [][\A session_id \in CreatedSessions, index \in 0..(NumQuestions - 1) :
            (\E outcome \in NavigationOutcomes(session_id) :
                /\ outcome.result.success
                /\ outcome.result.current_index = index
                /\ pyq_sessions' = outcome.pyq_sessions
                /\ fallback_sessions' = outcome.fallback_sessions)
            => ReportsCursor(session_id, index)']_vars

\* The calls a client can make to create_session: every answer of the
\* question source and of the insert (the order of a shuffle aside)
CreateCalls ==
    {call \in [user_id : Users, query_ok : BOOLEAN, insert_ok : BOOLEAN,
               db_matches : QuestionLists, provider_matches : QuestionLists] :
        \* a query that raised matched nothing; the provider is asked only then
        /\ call.query_ok \/ call.db_matches = <<>>
        /\ call.db_matches = <<>> \/ call.provider_matches = <<>>}

CreateOutcome(c) ==
    create_session(c.user_id, c.query_ok, c.db_matches, c.provider_matches,
                   FALSE, <<>>, c.insert_ok)

\* The question list kept for a session (it is kept in fallback_sessions only,
\* also for a session of the durable table)
StoredQuestionIds(fallback, session_id) ==
    IF session_id \in DOMAIN fallback
    THEN Get(fallback[session_id], "question_ids", <<>>)
    ELSE <<>>

\* A call that leaves the question list of every created session as it was
KeepsQuestionIds(outcome) ==
    \A session_id \in CreatedSessions :
        StoredQuestionIds(outcome.fallback_sessions, session_id)
            = StoredQuestionIds(fallback_sessions, session_id)

\* C12: create_session stores the question list it returns, and no later call
\* (navigate, jump, submit, current, progress, pause, resume, list, or the
\* creation of another session), on this or any other session id and whatever
\* the durable store does, changes the stored list of a created session.
C12_QuestionIdsImmutable ==
    /\ \A c \in CreateCalls :
          LET outcome == CreateOutcome(c)
          IN  /\ KeepsQuestionIds(outcome)
              /\ outcome.result.success =>
                    /\ outcome.result.question_ids # <<>>
                    /\ StoredQuestionIds(outcome.fallback_sessions, outcome.result.session_id)
                          = outcome.result.question_ids
    /\ \A c \in SubmitCalls : KeepsQuestionIds(SubmitOutcome(c))
    /\ \A user_id \in Users, status \in Statuses, select_ok \in BOOLEAN :
          KeepsQuestionIds(get_user_sessions(user_id, status, select_ok))
    /\ \A session_id \in CallerSessionIds, select_ok \in BOOLEAN, update_ok \in BOOLEAN :
          /\ \A direction \in Directions :
                KeepsQuestionIds(navigate_to_question(session_id, direction, select_ok, update_ok))
          /\ \A question_index \in -1..NumQuestions :
                KeepsQuestionIds(jump_to_question(session_id, question_index, select_ok, update_ok))
          /\ \A lookup_ok \in BOOLEAN :
                KeepsQuestionIds(get_current_question(session_id, select_ok, lookup_ok, update_ok))
          /\ KeepsQuestionIds(get_session_progress(session_id, select_ok))
          /\ KeepsQuestionIds(pause_session(session_id, update_ok))
          /\ KeepsQuestionIds(resume_session(session_id, update_ok))

\* C12 witness: a session over two questions whose cursor was moved, that was
\* answered and that was paused, still holding its two questions.
C12_Witness ==
    \E session_id \in CreatedSessions :
        /\ Len(StoredQuestionIds(fallback_sessions, session_id)) = 2
        /\ Attempts(fallback_sessions, session_id) # {}
        /\ \/ /\ session_id \in DOMAIN pyq_sessions
              /\ Get(pyq_sessions[session_id], "current_question_index", 0) = 1
              /\ ~Get(pyq_sessions[session_id], "is_active", TRUE)
           \/ /\ session_id \notin DOMAIN pyq_sessions
              /\ Get(fallback_sessions[session_id], "current_question_index", 0) = 1
              /\ ~Get(fallback_sessions[session_id], "is_active", TRUE)

\* C13 (as claimed): in every reachable state the counters of every fallback
\* entry count its attempts (answered, correct, incorrect), and the
\* questions_answered counter of every durable row (the one counter a row
\* keeps) is the number of attempts recorded for its session.
C13_CountersDerived ==
    /\ \A session_id \in DOMAIN fallback_sessions :
          CountersMatch(fallback_sessions[session_id])
    /\ \A session_id \in DOMAIN pyq_sessions :
          Get(pyq_sessions[session_id], "questions_answered", 0)
              = Cardinality(Attempts(fallback_sessions, session_id))

\* C14 (as claimed): a progress report is built from one store. One served by
\* the durable store (not flagged fallback) reports the cursor, the total and
\* the answered counter of the durable row; one served by the fallback store
\* reports those of the fallback entry.
C14_OneStoreServes ==
    \A session_id \in CreatedSessions, select_ok \in BOOLEAN :
        LET result == get_session_progress(session_id, select_ok).result
            session == IF Flagged(result) THEN fallback_sessions[session_id]
                       ELSE pyq_sessions[session_id]
        IN  result.success =>
                /\ ~Flagged(result) => session_id \in DOMAIN pyq_sessions
                /\ result.current_question = Get(session, "current_question_index", 0) + 1
                /\ result.total_questions =
                      Get(session, "total_questions", Len(Get(session, "question_ids", <<>>)))
                /\ result.questions_answered = Get(session, "questions_answered", 0)

\* A result dictionary that carries a success flag
Structured(outcome) == "success" \in DOMAIN outcome.result

\* The questions whose records the fallback entry of a session holds
BankedQuestions(session_id) ==
    IF session_id \in DOMAIN fallback_sessions
    THEN DOMAIN Get(fallback_sessions[session_id], "question_bank", <<>>)
    ELSE {}

\* C15 (as claimed): every call returns a dictionary with a success flag, for
\* every input and every pattern of durable failures; and on a created session
\* (whose fallback entry holds its question list and question records) no
\* pattern of durable failures makes a call fail: create_session over a
\* non-empty question list, get_current_question, submit_answer for a question
\* the entry holds, jump_to_question to an index of the list,
\* get_session_progress, pause_session and resume_session all succeed.
C15_FailuresDegrade ==
    /\ \A c \in CreateCalls :
          /\ Structured(CreateOutcome(c))
          /\ (c.db_matches # <<>> \/ c.provider_matches # <<>>)
                => CreateOutcome(c).result.success
    /\ \A c \in SubmitCalls :
          /\ Structured(SubmitOutcome(c))
          /\ (c.session_id \in CreatedSessions /\ c.question_id \in BankedQuestions(c.session_id))
                => SubmitOutcome(c).result.success
    /\ \A user_id \in Users, status \in Statuses, select_ok \in BOOLEAN :
          /\ Structured(get_user_sessions(user_id, status, select_ok))
          /\ get_user_sessions(user_id, status, select_ok).result.success
    /\ \A session_id \in CallerSessionIds, select_ok \in BOOLEAN, update_ok \in BOOLEAN :
          LET created == session_id \in CreatedSessions
              question_ids == StoredQuestionIds(fallback_sessions, session_id)
          IN  /\ \A direction \in Directions :
                    Structured(navigate_to_question(session_id, direction, select_ok, update_ok))
              /\ \A question_index \in -1..NumQuestions :
                    LET outcome == jump_to_question(session_id, question_index,
                                                    select_ok, update_ok)
                    IN  /\ Structured(outcome)
                        /\ (created /\ question_index \in 0..(Len(question_ids) - 1))
                              => outcome.result.success
              /\ \A lookup_ok \in BOOLEAN :
                    LET outcome == get_current_question(session_id, select_ok,
                                                        lookup_ok, update_ok)
                    IN  /\ Structured(outcome)
                        /\ created => outcome.result.success
              /\ Structured(get_session_progress(session_id, select_ok))
              /\ created => get_session_progress(session_id, select_ok).result.success
              /\ Structured(pause_session(session_id, update_ok))
              /\ created => pause_session(session_id, update_ok).result.success
              /\ Structured(resume_session(session_id, update_ok))
              /\ created => resume_session(session_id, update_ok).result.success

\* A session-addressed read that the durable store does not serve: the select
\* raises or answers with no row
ServedByFallback(session_id, select_ok) ==
    ~(select_ok /\ session_id \in DOMAIN pyq_sessions)

\* C16 (as claimed): every call that succeeds while the durable store fails
\* or does not hold the session is flagged fallback: create_session when the
\* insert fails; navigate, jump, current and progress when the select raises or
\* finds no row; pause and resume of a created session when the durable update
\* raises or the durable table holds no row for the session; submit_answer
\* always (it reads and writes the fallback entry on every call); the listing
\* when the select raises or finds no row.
C16_DegradedIsFlagged ==
    /\ \A c \in CreateCalls :
          (CreateOutcome(c).result.success /\ ~c.insert_ok)
              => Flagged(CreateOutcome(c).result)
    /\ \A c \in SubmitCalls :
          SubmitOutcome(c).result.success => Flagged(SubmitOutcome(c).result)
    /\ \A user_id \in Users, status \in Statuses, select_ok \in BOOLEAN :
          (~select_ok \/ DurableRows(user_id, status) = <<>>)
              => LET result == get_user_sessions(user_id, status, select_ok).result
                 IN  /\ Flagged(result)
                     /\ \A i \in DOMAIN result.sessions : result.sessions[i].fallback
    /\ \A session_id \in CallerSessionIds, select_ok \in BOOLEAN, update_ok \in BOOLEAN :
          /\ ServedByFallback(session_id, select_ok) =>
                /\ \A direction \in Directions :
                      LET result == navigate_to_question(session_id, direction,
                                                         select_ok, update_ok).result
                      IN  result.success => Flagged(result)
                /\ \A question_index \in -1..NumQuestions :
                      LET result == jump_to_question(session_id, question_index,
                                                     select_ok, update_ok).result
                      IN  result.success => Flagged(result)
                /\ \A lookup_ok \in BOOLEAN :
                      LET result == get_current_question(session_id, select_ok,
                                                         lookup_ok, update_ok).result
                      IN  result.success => Flagged(result)
                /\ LET result == get_session_progress(session_id, select_ok).result
                   IN  result.success => Flagged(result)
          /\ (session_id \in CreatedSessions
                /\ (~update_ok \/ session_id \notin DOMAIN pyq_sessions)) =>
                /\ LET result == pause_session(session_id, update_ok).result
                   IN  result.success => Flagged(result)
                /\ LET result == resume_session(session_id, update_ok).result
                   IN  result.success => Flagged(result)

\* C17: when the question source resolves the filter to an empty list (the
\* questions query raises or matches nothing, and the provider yields
\* nothing), create_session returns success False with the no-questions error
\* and leaves both stores and the id generator as they were.
C17_NoQuestionsNoSession ==
    \A c \in CreateCalls, shuffle_questions \in BOOLEAN :
        ((~c.query_ok \/ c.db_matches = <<>>) /\ c.provider_matches = <<>>) =>
            LET outcome == create_session(c.user_id, c.query_ok, c.db_matches,
                                          c.provider_matches, shuffle_questions,
                                          <<>>, c.insert_ok)
            IN  /\ ~outcome.result.success
                /\ outcome.result.error = "No questions found matching the specified filters"
                /\ NothingWritten(outcome)
                /\ DOMAIN outcome.pyq_sessions = DOMAIN pyq_sessions
                /\ DOMAIN outcome.fallback_sessions = DOMAIN fallback_sessions
                /\ outcome.next_session_id = next_session_id

\* C17 witness: with a session already stored, a create_session over an empty
\* list is refused and the stored session is all there is.
C17_Witness ==
    /\ next_session_id = 2
    /\ DOMAIN fallback_sessions = {1}
    /\ ~create_session("u1", FALSE, <<>>, <<>>, FALSE, <<>>, TRUE).result.success

\* A call that is refused and writes nothing
RefusedUntouched(outcome) ==
    /\ ~outcome.result.success
    /\ NothingWritten(outcome)
    /\ outcome.next_response_id = next_response_id

\* C18 (as claimed): a session-addressed call with a session id that neither
\* store holds returns success False and changes nothing: no entry is created
\* and no attempt is recorded.
C18_UnknownSessionRefused ==
    \A session_id \in CallerSessionIds \ (DOMAIN pyq_sessions \cup DOMAIN fallback_sessions) :
        /\ \A c \in SubmitCalls :
              c.session_id = session_id => RefusedUntouched(SubmitOutcome(c))
        /\ \A select_ok \in BOOLEAN, update_ok \in BOOLEAN :
              /\ \A direction \in Directions :
                    RefusedUntouched(navigate_to_question(session_id, direction,
                                                          select_ok, update_ok))
              /\ \A question_index \in -1..NumQuestions :
                    RefusedUntouched(jump_to_question(session_id, question_index,
                                                      select_ok, update_ok))
              /\ \A lookup_ok \in BOOLEAN :
                    RefusedUntouched(get_current_question(session_id, select_ok,
                                                          lookup_ok, update_ok))
              /\ RefusedUntouched(get_session_progress(session_id, select_ok))
              /\ RefusedUntouched(pause_session(session_id, update_ok))
              /\ RefusedUntouched(resume_session(session_id, update_ok))

\* The active flag of a session in the store that answers for it during a
\* call: the durable row when the durable store answers and holds one, else
\* the fallback entry (a store that lacks the key reads as
\* PYQSession.is_active's default)
ActiveIn(outcome, session_id, durable_ok) ==
    IF durable_ok /\ session_id \in DOMAIN outcome.pyq_sessions
    THEN Get(outcome.pyq_sessions[session_id], "is_active", TRUE)
    ELSE Get(outcome.fallback_sessions[session_id], "is_active", TRUE)

\* C19 (as claimed): a session is active right after create_session; after a
\* pause_session that returns success it is paused, and after a resume_session
\* that returns success it is active, in the store that answers for it, also
\* for a session kept only in the fallback store while the durable update
\* answers.
C19_PauseResumeStatus ==
    /\ \A c \in CreateCalls :
          LET outcome == CreateOutcome(c)
          IN  outcome.result.success =>
                  ActiveIn(outcome, outcome.result.session_id, c.insert_ok)
    /\ \A session_id \in CreatedSessions, update_ok \in BOOLEAN :
          /\ LET outcome == pause_session(session_id, update_ok)
             IN  outcome.result.success => ~ActiveIn(outcome, session_id, update_ok)
          /\ LET outcome == resume_session(session_id, update_ok)
             IN  outcome.result.success => ActiveIn(outcome, session_id, update_ok)

\* A session dictionary without the keys pause_session and resume_session
\* write: is_active, status and last_activity
PauseFrame(d) ==
    [d EXCEPT !.is_active = TRUE, !.status = "", !.last_activity = 0,
              !.keys = @ \ {"is_active", "status", "last_activity"}]

\* A call that changes nothing but is_active, status and last_activity of the
\* sessions in either store
OnlyStatusWritten(outcome) ==
    /\ DOMAIN outcome.pyq_sessions = DOMAIN pyq_sessions
    /\ DOMAIN outcome.fallback_sessions = DOMAIN fallback_sessions
    /\ \A s \in DOMAIN pyq_sessions :
          PauseFrame(outcome.pyq_sessions[s]) = PauseFrame(pyq_sessions[s])
    /\ \A s \in DOMAIN fallback_sessions :
          PauseFrame(outcome.fallback_sessions[s]) = PauseFrame(fallback_sessions[s])
    /\ outcome.next_session_id = next_session_id
    /\ outcome.next_response_id = next_response_id

\* C20: pause_session and resume_session, on any session id and whether the
\* durable update answers or raises, leave the question list, the cursor, the
\* attempts and the counters of every session in both stores as they were;
\* they write only is_active, status and last_activity.
C20_PauseResumeFrame ==
    \A session_id \in CallerSessionIds, update_ok \in BOOLEAN :
        /\ OnlyStatusWritten(pause_session(session_id, update_ok))
        /\ OnlyStatusWritten(resume_session(session_id, update_ok))

\* C20 witness: a session of the durable table, moved to its second question
\* and answered, that was paused in the durable row and resumed in its
\* fallback entry, with cursor and attempts still in place.
C20_Witness ==
    \E session_id \in CreatedSessions \cap DOMAIN pyq_sessions :
        /\ ~Get(pyq_sessions[session_id], "is_active", TRUE)
        /\ Get(pyq_sessions[session_id], "current_question_index", 0) = 1
        /\ "status" \in fallback_sessions[session_id].keys
        /\ fallback_sessions[session_id].status = "active"
        /\ Attempts(fallback_sessions, session_id) # {}

\* ------------------------------------------------ terminal-state specification
\* SessionStatus.COMPLETED and SessionStatus.EXPIRED: no handler of the engine
\* writes them; an external trigger does.
TerminalStatuses == {"completed", "expired"}

\* The external trigger: it marks a stored session completed or expired, in the
\* durable row when there is one and in the fallback entry otherwise.
ExternalTrigger ==
    \E session_id \in CreatedSessions, status \in TerminalStatuses :
        /\ IF session_id \in DOMAIN pyq_sessions
           THEN /\ pyq_sessions' = [pyq_sessions EXCEPT ![session_id] =
                                      Put(Put(@, "is_active", FALSE), "status", status)]
                /\ UNCHANGED fallback_sessions
           ELSE /\ fallback_sessions' = [fallback_sessions EXCEPT ![session_id] =
                                           Put(Put(@, "is_active", FALSE), "status", status)]
                /\ UNCHANGED pyq_sessions
        /\ UNCHANGED <<questions, next_session_id, next_response_id, now, threads>>

NextTerminal ==
    \/ CreateSession
    \/ Navigate
    \/ ExternalTrigger
    \/ Pause
    \/ Resume

SpecTerminal == Init /\ [][NextTerminal]_vars

\* A session dictionary that says the session is completed or expired
IsTerminal(d) == Get(d, "status", "") \in TerminalStatuses

\* A pause or resume outcome that leaves a completed or expired session as it
\* is: same status, still not active
StaysTerminal(outcome, session_id) ==
    /\ (session_id \in DOMAIN pyq_sessions /\ IsTerminal(pyq_sessions[session_id])) =>
          /\ outcome.pyq_sessions[session_id].status = pyq_sessions[session_id].status
          /\ ~Get(outcome.pyq_sessions[session_id], "is_active", TRUE)
    /\ (session_id \in DOMAIN fallback_sessions /\ IsTerminal(fallback_sessions[session_id])) =>
          /\ outcome.fallback_sessions[session_id].status
                = fallback_sessions[session_id].status
          /\ ~Get(outcome.fallback_sessions[session_id], "is_active", TRUE)

\* C21 (as claimed): once a session is completed or expired, pause_session and
\* resume_session, whether the durable update answers or raises, leave its
\* status as it is and do not make it active again.
C21_TerminalStays ==
    \A session_id \in CreatedSessions, update_ok \in BOOLEAN :
        /\ StaysTerminal(pause_session(session_id, update_ok), session_id)
        /\ StaysTerminal(resume_session(session_id, update_ok), session_id)

\* ------------------------------------------------ concurrent specification
\* The development server (app.run) serves every request on a thread of its
\* own, run_async gives each request an event loop of its own, and the
\* service takes no lock: the handlers of two requests interleave between
\* their statements and around their calls to the durable store.  In this
\* specification the durable store answers every call, so that what is seen
\* is the interleaving alone; each thread serves one request.
ConcurrentQuestionList == [i \in 1..NumConcurrentQuestions |-> i]

InitConcurrent ==
    /\ pyq_sessions = <<>>
    /\ questions = [q \in 1..NumConcurrentQuestions |-> InitialKey(q)]
    /\ fallback_sessions = <<>>
    /\ next_session_id = 1
    /\ next_response_id = 1
    /\ now = 0
    /\ threads = [t \in ThreadIds |-> IdleThread]

\* POST /pyq/sessions: create_session does not read a session again after it
\* wrote it, so the handler is one step.
ConcurrentCreate ==
    \E user_id \in Users, insert_ok \in BOOLEAN :
        LET outcome == create_session(user_id, TRUE, ConcurrentQuestionList, <<>>,
                                      FALSE, <<>>, insert_ok)
        IN  /\ outcome.next_session_id <= MaxConcurrentSessions + 1
            /\ pyq_sessions' = outcome.pyq_sessions
            /\ fallback_sessions' = outcome.fallback_sessions
            /\ next_session_id' = outcome.next_session_id
            /\ UNCHANGED <<questions, next_response_id, now, threads>>

\* navigate_to_question("next") up to the boundary check: the session is read
\* and current_index becomes a local variable of the request.
NavigateRead(t) ==
    /\ threads[t].pc = "idle"
    /\ \E session_id \in CreatedSessions :
        LET source == SessionSource(session_id, TRUE)
            session == SessionDict(session_id, source)
            question_ids == SessionQuestionIds(session_id, source)
            current_index == Get(session, "current_question_index", 0)
        IN  threads' = [threads EXCEPT ![t] =
                IF NextRefused(current_index, question_ids)
                THEN [IdleThread EXCEPT !.pc = "done", !.op = "navigate",
                                        !.session_id = session_id,
                                        !.result = {Failure("Cannot move beyond the last question")}]
                ELSE [IdleThread EXCEPT !.pc = "navigate_write", !.op = "navigate",
                                        !.session_id = session_id,
                                        !.source = source,
                                        !.index = current_index + 1]]
    /\ UNCHANGED <<pyq_sessions, questions, fallback_sessions, next_session_id,
                   next_response_id, now>>

\* navigate_to_question from the write of the local current_index to the return
NavigateWrite(t) ==
    /\ threads[t].pc = "navigate_write"
    /\ LET th == threads[t]
           outcome == WriteIndex([success |-> TRUE,
                                  current_index |-> th.index,
                                  fallback |-> FallbackFlag(th.source)],
                                 th.session_id, th.source, th.index, TRUE)
       IN  /\ pyq_sessions' = outcome.pyq_sessions
           /\ fallback_sessions' = outcome.fallback_sessions
           /\ threads' = [threads EXCEPT ![t] =
                            [@ EXCEPT !.pc = "done", !.result = {outcome.result}]]
    /\ UNCHANGED <<questions, next_session_id, next_response_id, now>>

\* submit_answer up to the choice of response_id: the question is graded and
\* the id of the attempt the session holds for it, or a new uuid, is taken.
SubmitRead(t) ==
    /\ threads[t].pc = "idle"
    /\ \E session_id \in CreatedSessions, question_id \in DOMAIN questions,
          submission \in Submissions :
        LET question == QuestionForSubmit(session_id, question_id, TRUE)
            correct_answer == CHOOSE k \in question : TRUE
            is_correct == _check_answer(correct_answer, submission.user_answer)
            responses == Get(fallback_sessions[session_id], "responses", {})
            existing == {r \in responses : r.question_id = question_id}
            response_id == ResponseId(existing, next_response_id)
        IN  /\ threads' = [threads EXCEPT ![t] =
                [IdleThread EXCEPT
                    !.pc = "submit_store", !.op = "submit",
                    !.session_id = session_id,
                    !.record = {[session_id |-> session_id,
                                 question_id |-> question_id,
                                 user_answer |-> submission.user_answer,
                                 is_correct |-> is_correct,
                                 time_taken |-> submission.time_taken,
                                 response_time |-> now,
                                 id |-> response_id]},
                    !.result = {[success |-> TRUE,
                                 is_correct |-> is_correct,
                                 correct_answer |-> correct_answer,
                                 response_id |-> response_id,
                                 fallback |-> TRUE]}]]
            /\ next_response_id' = IF existing = {} THEN next_response_id + 1
                                   ELSE next_response_id
    /\ UNCHANGED <<pyq_sessions, questions, fallback_sessions, next_session_id, now>>

\* responses[question_id] = {**response_record, "id": response_id}
SubmitStore(t) ==
    /\ threads[t].pc = "submit_store"
    /\ LET th == threads[t]
           record == CHOOSE r \in th.record : TRUE
       IN  fallback_sessions' = [fallback_sessions EXCEPT ![th.session_id] =
               Put(@, "responses", StoreResponse(Get(@, "responses", {}), record))]
    /\ threads' = [threads EXCEPT ![t].pc = "submit_count"]
    /\ UNCHANGED <<pyq_sessions, questions, next_session_id, next_response_id, now>>

\* _update_session_stats: questions_answered = len(responses)
SubmitCount(t) ==
    /\ threads[t].pc = "submit_count"
    /\ threads' = [threads EXCEPT ![t] =
            [@ EXCEPT !.pc = "submit_update",
                      !.counted = Get(fallback_sessions[threads[t].session_id],
                                     "responses", {})]]
    /\ UNCHANGED <<pyq_sessions, questions, fallback_sessions, next_session_id,
                   next_response_id, now>>

\* _update_session_stats: the durable update with the number counted, then the
\* counters of the fallback entry
SubmitUpdate(t) ==
    /\ threads[t].pc = "submit_update"
    /\ LET th == threads[t]
           responses == Get(fallback_sessions[th.session_id], "responses", {})
       IN  /\ pyq_sessions' = _update_session_stats(th.session_id, th.counted, TRUE)
           /\ fallback_sessions' = [fallback_sessions EXCEPT ![th.session_id] =
                   Put(WithStats(@, responses),
                       "questions_answered", Cardinality(th.counted))]
    /\ threads' = [threads EXCEPT ![t].pc = "submit_stats"]
    /\ UNCHANGED <<questions, next_session_id, next_response_id, now>>

\* submit_answer from "Update fallback session stats" to the return
SubmitStats(t) ==
    /\ threads[t].pc = "submit_stats"
    /\ fallback_sessions' = [fallback_sessions EXCEPT ![threads[t].session_id] =
            WithStats(@, Get(@, "responses", {}))]
    /\ threads' = [threads EXCEPT ![t].pc = "done"]
    /\ UNCHANGED <<pyq_sessions, questions, next_session_id, next_response_id, now>>

ThreadNavigateRead == \E t \in ThreadIds : NavigateRead(t)
ThreadNavigateWrite == \E t \in ThreadIds : NavigateWrite(t)
ThreadSubmitRead == \E t \in ThreadIds : SubmitRead(t)
ThreadSubmitStore == \E t \in ThreadIds : SubmitStore(t)
ThreadSubmitCount == \E t \in ThreadIds : SubmitCount(t)
ThreadSubmitUpdate == \E t \in ThreadIds : SubmitUpdate(t)
ThreadSubmitStats == \E t \in ThreadIds : SubmitStats(t)

NextConcurrent ==
    \/ ConcurrentCreate
    \/ ThreadNavigateRead
    \/ ThreadNavigateWrite
    \/ ThreadSubmitRead
    \/ ThreadSubmitStore
    \/ ThreadSubmitCount
    \/ ThreadSubmitUpdate
    \/ ThreadSubmitStats

SpecConcurrent == InitConcurrent /\ [][NextConcurrent]_vars

\* The cursor of a session in the store that is read first for it
Cursor(session_id) ==
    IF session_id \in DOMAIN pyq_sessions
    THEN DurableIndex(pyq_sessions, session_id)
    ELSE DurableIndex(fallback_sessions, session_id)

\* The result dictionary of a thread's request
Result(t) == CHOOSE r \in threads[t].result : TRUE

\* A thread whose request has returned the result of a successful call
Returned(t, op) ==
    /\ threads[t].pc = "done"
    /\ threads[t].op = op
    /\ Result(t).success

\* C22: two navigate "next" requests on one session that start at index 0
\* (a new session's index; nothing else moves it here) of three questions
\* and both return success leave the session at index 2 and return different
\* indices, however the threads serving them interleave.
C22_NavigationSerialized ==
    \A t1 \in ThreadIds, t2 \in ThreadIds :
        ( /\ t1 # t2
          /\ Returned(t1, "navigate")
          /\ Returned(t2, "navigate")
          /\ threads[t1].session_id = threads[t2].session_id )
        => /\ Cursor(threads[t1].session_id) = 2
           /\ Result(t1).current_index # Result(t2).current_index

\* Every request that was started has returned
AllReturned == \A t \in ThreadIds : threads[t].pc \in {"idle", "done"}

\* The attempt a submit request stores
Submitted(t) == CHOOSE r \in threads[t].record : TRUE

\* C23: once every request has returned, each question a submit request
\* answered has exactly one attempt in its session, that attempt carries the
\* response_id the request returned, and the session's counters, in the
\* fallback entry and in the durable row, equal the counts over its attempts.
C23_SubmissionsSerialized ==
    AllReturned =>
        \A t \in ThreadIds :
            Returned(t, "submit") =>
                LET session_id == threads[t].session_id
                    stored == AttemptsFor(fallback_sessions, session_id,
                                          Submitted(t).question_id)
                IN  /\ Cardinality(stored) = 1
                    /\ \A r \in stored : r.id = Result(t).response_id
                    /\ CountersMatch(fallback_sessions[session_id])
                    /\ session_id \in DOMAIN pyq_sessions =>
                         Get(pyq_sessions[session_id], "questions_answered", 0)
                           = Cardinality(Attempts(fallback_sessions, session_id))

\* A session's durable row and fallback entry are in the stores `rows` and
\* `entries` exactly as they are now: its question_ids, cursor, status,
\* attempts and counters with them.
SessionUnchanged(rows, entries, session_id) ==
    /\ (session_id \in DOMAIN rows) = (session_id \in DOMAIN pyq_sessions)
    /\ session_id \in DOMAIN pyq_sessions => rows[session_id] = pyq_sessions[session_id]
    /\ (session_id \in DOMAIN entries) = (session_id \in DOMAIN fallback_sessions)
    /\ session_id \in DOMAIN fallback_sessions =>
         entries[session_id] = fallback_sessions[session_id]

LeavesAlone(outcome, session_id) ==
    SessionUnchanged(outcome.pyq_sessions, outcome.fallback_sessions, session_id)

\* Every handler addressed to session a, whatever its inputs and however its
\* durable calls end, leaves session b as it is.
HandlersLeaveAlone(a, b) ==
    /\ \A direction \in Directions, select_ok \in BOOLEAN, update_ok \in BOOLEAN :
           LeavesAlone(navigate_to_question(a, direction, select_ok, update_ok), b)
    /\ \A question_index \in -1..NumConcurrentQuestions,
          select_ok \in BOOLEAN, update_ok \in BOOLEAN :
           LeavesAlone(jump_to_question(a, question_index, select_ok, update_ok), b)
    /\ \A question_id \in DOMAIN questions, submission \in Submissions,
          lookup_ok \in BOOLEAN, update_ok \in BOOLEAN :
           LeavesAlone(submit_answer(a, question_id, submission.user_answer,
                                     submission.time_taken, lookup_ok, update_ok), b)
    /\ \A update_ok \in BOOLEAN :
           /\ LeavesAlone(pause_session(a, update_ok), b)
           /\ LeavesAlone(resume_session(a, update_ok), b)
    /\ \A select_ok \in BOOLEAN, lookup_ok \in BOOLEAN, update_ok \in BOOLEAN :
           LeavesAlone(get_current_question(a, select_ok, lookup_ok, update_ok), b)
    /\ \A select_ok \in BOOLEAN :
           LeavesAlone(get_session_progress(a, select_ok), b)

\* A step of a request thread leaves alone every session but the one the
\* request is addressed to.
ThreadStepsLeaveAlone ==
    \A t \in ThreadIds :
        threads'[t] # threads[t] =>
            \A b \in CreatedSessions \ {threads'[t].session_id} :
                SessionUnchanged(pyq_sessions', fallback_sessions', b)

\* C24: an operation addressed to one session (navigate, jump, submit, pause,
\* resume, current question, progress), run as a whole from any state,
\* including the states in which other requests are halfway, or run step by
\* step between the steps of other requests, leaves every other session's
\* row and entry (question_ids, cursor, status, attempts, counters) unchanged.
C24_SessionsIndependent ==
    /\ [](\A a \in CreatedSessions, b \in CreatedSessions :
             a # b => HandlersLeaveAlone(a, b))
    /\ [][ThreadStepsLeaveAlone]_vars

\* Two sessions exist; a request on one has moved its cursor and a request on
\* the other has stored an attempt.
C24_Witness ==
    \E t1 \in ThreadIds, t2 \in ThreadIds :
        /\ Returned(t1, "navigate")
        /\ Returned(t2, "submit")
        /\ threads[t1].session_id # threads[t2].session_id
        /\ Cursor(threads[t1].session_id) = 1
        /\ Attempts(fallback_sessions, threads[t2].session_id) # {}
        /\ Attempts(fallback_sessions, threads[t1].session_id) = {}
        /\ Cursor(threads[t2].session_id) = 0

\* C25 (as claimed): every progress report counts the session's stored
\* attempts: questions_answered is their number, correct and incorrect add up
\* to it, questions_remaining is total_questions minus it and is never
\* negative, accuracy_percentage is 0 when nothing is answered, and
\* is_completed says that questions_answered equals total_questions.
C25_ProgressValues ==
    \A session_id \in CallerSessionIds, select_ok \in BOOLEAN :
        LET result == get_session_progress(session_id, select_ok).result
        IN  result.success =>
              /\ result.questions_answered
                   = Cardinality(Attempts(fallback_sessions, session_id))
              /\ result.questions_correct + result.questions_incorrect
                   = result.questions_answered
              /\ result.questions_remaining
                   = result.total_questions - result.questions_answered
              /\ result.questions_remaining >= 0
              /\ result.questions_answered = 0 => result.accuracy_percentage = 0
              /\ result.is_completed
                   = (result.questions_answered = result.total_questions)

\* The status the claim gives a question of a session
StatusOf(session_id, question_id) ==
    LET attempts == AttemptsFor(fallback_sessions, session_id, question_id)
    IN  IF attempts = {} THEN "not_attempted"
        ELSE IF \A r \in attempts : r.is_correct THEN "correct"
        ELSE "incorrect"

\* C26: the status map of every progress report, read from either store, has
\* the positions 0..len(question_ids)-1 of the session as its keys, and at
\* each position "not_attempted" when the session has no attempt for the
\* question there, "correct" when its attempt is correct, else "incorrect".
C26_StatusMap ==
    \A session_id \in CallerSessionIds, select_ok \in BOOLEAN :
        LET result == get_session_progress(session_id, select_ok).result
            question_ids == StoredQuestionIds(fallback_sessions, session_id)
        IN  result.success =>
              /\ DOMAIN result.question_status = 0..(Len(question_ids) - 1)
              /\ \A index \in DOMAIN result.question_status :
                    result.question_status[index]
                      = StatusOf(session_id, question_ids[index + 1])

\* A two-question session of the durable table with a correct attempt for the
\* question at one position and none for the other, reported with the durable
\* store answering and with it failing.
C26_Witness ==
    \E session_id \in CreatedSessions :
        /\ session_id \in DOMAIN pyq_sessions
        /\ Len(StoredQuestionIds(fallback_sessions, session_id)) = 2
        /\ \A select_ok \in BOOLEAN :
              LET result == get_session_progress(session_id, select_ok).result
              IN  /\ result.success
                  /\ result.question_status[0] = "not_attempted"
                  /\ result.question_status[1] = "correct"

\* The sessions that live in the fallback store only
FallbackOnly == DOMAIN fallback_sessions \ DOMAIN pyq_sessions

\* C27: a create_session whose durable insert raises and that succeeds returns
\* a result flagged fallback with an id no session has, adds the whole session
\* (owner, question list, cursor, status) to fallback_sessions under that id
\* and leaves the durable table as it was; and no step of any handler adds a
\* row to the durable table for a session that lives in fallback_sessions only.
C27_FallbackNeverUpgrades ==
    /\ [](\A c \in CreateCalls :
            LET outcome == CreateOutcome(c)
                session_id == outcome.result.session_id
            IN  (~c.insert_ok /\ outcome.result.success) =>
                  /\ Flagged(outcome.result)
                  /\ session_id \notin DOMAIN pyq_sessions \cup DOMAIN fallback_sessions
                  /\ outcome.pyq_sessions = pyq_sessions
                  /\ session_id \in DOMAIN outcome.fallback_sessions
                  /\ outcome.fallback_sessions[session_id].keys
                       = FallbackSession(c.user_id, outcome.result.question_ids).keys
                  /\ Get(outcome.fallback_sessions[session_id], "question_ids", <<>>)
                       = outcome.result.question_ids
                  /\ Get(outcome.fallback_sessions[session_id], "status", "") = "active")
    /\ [][\A session_id \in FallbackOnly : session_id \notin DOMAIN pyq_sessions']_vars

\* A session created with the durable insert raising that has since been
\* answered, advanced and paused
C27_Witness ==
    \E session_id \in CreatedSessions :
        /\ session_id \in FallbackOnly
        /\ "user_id" \in fallback_sessions[session_id].keys
        /\ Attempts(fallback_sessions, session_id) # {}
        /\ DurableIndex(fallback_sessions, session_id) = 1
        /\ Get(fallback_sessions[session_id], "status", "") = "paused"

Authoritative(session_id) ==
    IF session_id \in DOMAIN pyq_sessions THEN pyq_sessions[session_id]
    ELSE fallback_sessions[session_id]

\* The created sessions of a user whose state the status filter names
OwnedMatching(user_id, status) ==
    {session_id \in CreatedSessions :
        /\ Get(Authoritative(session_id), "user_id", "") = user_id
        /\ \/ status = "all"
           \/ status = "active" /\ Get(Authoritative(session_id), "is_active", TRUE)
           \/ status = "paused" /\ ~Get(Authoritative(session_id), "is_active", TRUE)}

\* The ids of the sessions a listing returned
ListedIds(result) == {result.sessions[i].id : i \in DOMAIN result.sessions}

\* C29 (as claimed): a listing for a user and a status filter returns exactly
\* the created sessions of that user whose state matches the filter, whether
\* the durable select answers or raises.
C29_ListsOwnedSessions ==
    \A user_id \in Users, status \in Statuses, select_ok \in BOOLEAN :
        LET result == get_user_sessions(user_id, status, select_ok).result
        IN  result.success => ListedIds(result) = OwnedMatching(user_id, status)

\* How often x occurs in the list s
Occurrences(s, x) == Cardinality({i \in DOMAIN s : s[i] = x})

\* The two lists hold the same elements, each as often
SameElements(s, t) ==
    /\ Len(s) = Len(t)
    /\ \A x \in Range(s) \cup Range(t) : Occurrences(s, x) = Occurrences(t, x)

\* C31: whatever the question source answers, a successful create_session
\* returns and stores a question list with the same length and elements as the
\* list the source returned, each as often, and exactly that list when
\* shuffle_questions is off; and no step of any handler changes the stored
\* list of a created session afterwards.
C31_QuestionIdsPermutation ==
    /\ [](\A c \in CreateCalls, shuffle_questions \in BOOLEAN :
            LET found == _get_filtered_questions(c.query_ok, c.db_matches,
                                                 c.provider_matches)
            IN  \A shuffled \in (IF shuffle_questions THEN Shuffles(found) ELSE {<<>>}) :
                  LET outcome == create_session(c.user_id, c.query_ok, c.db_matches,
                                                c.provider_matches, shuffle_questions,
                                                shuffled, c.insert_ok)
                      stored == StoredQuestionIds(outcome.fallback_sessions,
                                                  outcome.result.session_id)
                  IN  outcome.result.success =>
                        /\ stored = outcome.result.question_ids
                        /\ SameElements(stored, found)
                        /\ ~shuffle_questions => stored = found)
    /\ [][\A session_id \in CreatedSessions :
            StoredQuestionIds(fallback_sessions', session_id)
              = StoredQuestionIds(fallback_sessions, session_id)]_vars

\* A session holds the two questions in the order opposite to the order of
\* the questions table, an order a shuffle of the source's list produces, and
\* its cursor has been moved since.
C31_Witness ==
    \E session_id \in CreatedSessions :
        /\ StoredQuestionIds(fallback_sessions, session_id) = <<2, 1>>
        /\ <<2, 1>> \in Shuffles(<<1, 2>>)
        /\ Cursor(session_id) = 1

\* ---------------------------------------------------- clock specification
\* Sessions are created and navigated while time passes: datetime.now()
\* returns a later value after every tick.
Tick ==
    /\ now < MaxClock
    /\ now' = now + 1
    /\ UNCHANGED <<pyq_sessions, questions, fallback_sessions, next_session_id,
                   next_response_id, threads>>

NextClock == \/ CreateSession \/ Navigate \/ Jump \/ Tick

SpecClock == Init /\ [][NextClock]_vars

\* last_activity of a session in the store it is served from after a call
LastActivityAfter(outcome, session_id) ==
    IF session_id \in DOMAIN outcome.pyq_sessions
    THEN Get(outcome.pyq_sessions[session_id], "last_activity", -1)
    ELSE Get(outcome.fallback_sessions[session_id], "last_activity", -1)

\* C32 (as claimed): every navigate and every jump on a created session that
\* returns success leaves the session's last_activity, in the store the
\* session is served from (its durable row, else its fallback entry), equal
\* to the time of the call.
C32_NavigationStampsActivity ==
    \A session_id \in CreatedSessions, select_ok \in BOOLEAN, update_ok \in BOOLEAN :
        /\ \A direction \in Directions :
              LET outcome == navigate_to_question(session_id, direction, select_ok, update_ok)
              IN  outcome.result.success => LastActivityAfter(outcome, session_id) = now
        /\ \A question_index \in -1..NumQuestions :
              LET outcome == jump_to_question(session_id, question_index, select_ok, update_ok)
              IN  outcome.result.success => LastActivityAfter(outcome, session_id) = now

\* ----------------------------------------------------- keys specification
\* The questions table is edited while a session over question 1 exists: the
\* correct-answer key of a question is replaced by another key.
KeyChoices == {<<"a">>, <<"b">>}

ChangeKey ==
    \E question_id \in Questions, key \in KeyChoices :
        /\ questions[question_id] # key
        /\ questions' = [questions EXCEPT ![question_id] = key]
        /\ UNCHANGED <<pyq_sessions, fallback_sessions, next_session_id,
                       next_response_id, now, threads>>

NextKeys == \/ GradeCreate \/ SubmitAnswer \/ ChangeKey

SpecKeys == Init /\ [][NextKeys]_vars

\* C33 (as claimed): every successful submission to a created session stores
\* and returns the is_correct that grading the submitted answer against the
\* key the questions table holds at that moment gives.
C33_GradedAgainstCurrentKey ==
    \A c \in SubmitCalls :
        LET outcome == SubmitOutcome(c)
        IN  (c.session_id \in CreatedSessions /\ outcome.result.success) =>
              /\ outcome.result.is_correct
                   = _check_answer(questions[c.question_id], c.user_answer)
              /\ \A r \in AttemptsFor(outcome.fallback_sessions, c.session_id,
                                      c.question_id) :
                    r.is_correct = _check_answer(questions[c.question_id], c.user_answer)

\* C34: every session create_session made has at least one question and, in
\* its durable row and in its fallback entry, a cursor below the number of
\* its questions; get_current_question on it never answers "No more questions
\* in this session", whichever store it reads and however its calls end.
C34_CursorBelowLength ==
    \A session_id \in CreatedSessions :
        /\ Len(StoredQuestionIds(fallback_sessions, session_id)) >= 1
        /\ session_id \in DOMAIN pyq_sessions =>
             DurableIndex(pyq_sessions, session_id)
               < Len(StoredQuestionIds(fallback_sessions, session_id))
        /\ DurableIndex(fallback_sessions, session_id)
             < Len(StoredQuestionIds(fallback_sessions, session_id))
        /\ \A select_ok \in BOOLEAN, lookup_ok \in BOOLEAN, update_ok \in BOOLEAN :
              LET result == get_current_question(session_id, select_ok,
                                                 lookup_ok, update_ok).result
              IN  /\ "session_completed" \notin DOMAIN result
                  /\ ~result.success => result.error # "No more questions in this session"

\* A session at its last question after a refused "next": the current
\* question is still served.
C34_Witness ==
    \E session_id \in CreatedSessions :
        /\ Len(StoredQuestionIds(fallback_sessions, session_id)) = 2
        /\ Cursor(session_id) = 1
        /\ ~navigate_to_question(session_id, "next", TRUE, TRUE).result.success
        /\ get_current_question(session_id, TRUE, TRUE, TRUE).result.success

\* The counters a session carries, in its durable row and its fallback entry
Counters(rows, entries, session_id) ==
    <<IF session_id \in DOMAIN rows
      THEN Get(rows[session_id], "questions_answered", 0) ELSE 0,
      Get(entries[session_id], "questions_answered", 0),
      Get(entries[session_id], "questions_correct", 0),
      Get(entries[session_id], "questions_incorrect", 0)>>

\* C35 (as claimed): every attempt a created session holds is for a question
\* of its question list, and a submission for a question outside the list
\* stores no attempt and leaves the session's counters as they were.
C35_AttemptsWithinSession ==
    /\ \A session_id \in CreatedSessions :
          \A r \in Attempts(fallback_sessions, session_id) :
              r.question_id \in Range(StoredQuestionIds(fallback_sessions, session_id))
    /\ \A c \in SubmitCalls :
          ( /\ c.session_id \in CreatedSessions
            /\ c.question_id
                 \notin Range(StoredQuestionIds(fallback_sessions, c.session_id)) )
          => LET outcome == SubmitOutcome(c)
             IN  /\ Attempts(outcome.fallback_sessions, c.session_id)
                      = Attempts(fallback_sessions, c.session_id)
                 /\ Counters(outcome.pyq_sessions, outcome.fallback_sessions, c.session_id)
                      = Counters(pyq_sessions, fallback_sessions, c.session_id)

\* C36 (as claimed): in every progress report of a created session,
\* is_completed is true exactly when no position of the report's status map
\* is "not_attempted".
C36_CompletedMeansAllAttempted ==
    \A session_id \in CreatedSessions, select_ok \in BOOLEAN :
        LET result == get_session_progress(session_id, select_ok).result
        IN  result.success =>
              ( result.is_completed
                  = (\A index \in DOMAIN result.question_status :
                        result.question_status[index] # "not_attempted") )

\* C37 (as claimed): whenever get_current_question serves the current question
\* of a created session, read from the durable row or from the fallback entry,
\* its previous_response is the attempt the session holds for that question,
\* and none only when the session holds none.
C37_PreviousResponse ==
    \A session_id \in CreatedSessions, select_ok \in BOOLEAN,
       lookup_ok \in BOOLEAN, update_ok \in BOOLEAN :
        LET result == get_current_question(session_id, select_ok, lookup_ok, update_ok).result
        IN  result.success =>
              result.previous_response
                = AttemptsFor(fallback_sessions, session_id, result.question_id)

\* The part of a progress report the claim compares
Reported(result) ==
    <<result.total_questions, result.questions_answered, result.questions_correct,
      result.questions_incorrect, result.question_status>>

Position(rows, entries, session_id) ==
    <<IF session_id \in DOMAIN rows
      THEN <<Get(rows[session_id], "current_question_index", 0),
             Get(rows[session_id], "is_active", TRUE)>>
      ELSE <<>>,
      IF session_id \in DOMAIN entries
      THEN <<Get(entries[session_id], "current_question_index", 0),
             Get(entries[session_id], "is_active", TRUE),
             Get(entries[session_id], "status", "")>>
      ELSE <<>>>>

\* C39: a submission, correct or incorrect, first or repeated, for the current
\* or another question, with its durable calls answering or raising, leaves
\* the cursor and the status of every session the stores hold as they were.
C39_SubmitKeepsCursor ==
    \A c \in SubmitCalls :
        LET outcome == SubmitOutcome(c)
        IN  \A session_id \in DOMAIN pyq_sessions \cup DOMAIN fallback_sessions :
              Position(outcome.pyq_sessions, outcome.fallback_sessions, session_id)
                = Position(pyq_sessions, fallback_sessions, session_id)

\* A paused session at its second question that holds an attempt and accepts
\* a resubmission for it as well as a submission for the other question.
C39_Witness ==
    \E session_id \in CreatedSessions :
        /\ session_id \in FallbackOnly
        /\ DurableIndex(fallback_sessions, session_id) = 1
        /\ Get(fallback_sessions[session_id], "status", "") = "paused"
        /\ Cardinality(Attempts(fallback_sessions, session_id)) = 1
        /\ \A c \in SubmitCalls :
              (c.session_id = session_id /\ c.lookup_ok) => SubmitOutcome(c).result.success

\* C40: whenever get_current_question serves a question, the flags it returns
\* say what a navigate call read from the same store does in that state
\* (get_current_question writes nothing navigate reads): has_next is true
\* exactly when "next" succeeds, has_previous exactly when "previous"
\* succeeds, and is_last is the negation of has_next; this for every outcome
\* of the lookups and updates inside the calls.
C40_FlagsAgreeWithNavigation ==
    \A session_id \in CallerSessionIds, select_ok \in BOOLEAN, lookup_ok \in BOOLEAN,
       update_ok \in BOOLEAN, navigate_update_ok \in BOOLEAN :
        LET result == get_current_question(session_id, select_ok, lookup_ok, update_ok).result
            next == navigate_to_question(session_id, "next", select_ok,
                                         navigate_update_ok).result
            previous == navigate_to_question(session_id, "previous", select_ok,
                                             navigate_update_ok).result
        IN  result.success =>
              /\ result.has_next = next.success
              /\ result.has_previous = previous.success
              /\ result.is_last = ~result.has_next

\* A two-question session at its second question: has_previous and is_last
\* are set, has_next is not, "previous" succeeds and "next" is refused.
C40_Witness ==
    \E session_id \in CreatedSessions :
        LET result == get_current_question(session_id, TRUE, TRUE, TRUE).result
        IN  /\ result.success
            /\ result.current_index = 1
            /\ result.has_previous
            /\ ~result.has_next
            /\ result.is_last
            /\ navigate_to_question(session_id, "previous", TRUE, TRUE).result.success
            /\ ~navigate_to_question(session_id, "next", TRUE, TRUE).result.success

====
